---- MODULE Spec2Model ----
(***************************************************************************)
(* Request lifecycle and orchestration coordinator of the chat backend     *)
(* (src/src/backend/app/main.py, chat_storage.py).                         *)
(*                                                                         *)
(* The backend is one asyncio event loop.  The loop is modelled by its     *)
(* FIFO queue of ready handles (`ready`): loop.call_soon, create_task and  *)
(* add_done_callback append a handle, the loop runs the head handle to its *)
(* next suspension point.  Everything a coroutine does between two awaits  *)
(* that suspend is one atomic step.  Completions of awaited I/O (thread    *)
(* pool, generation engine, HTTP arrivals) are environment actions that    *)
(* append the wake-up handle of the waiting coroutine.                     *)
(***************************************************************************)
EXTENDS Integers, Sequences, FiniteSets, TLC

\* ------------------------------------------------------------- bounds
\* Post-request calls of schedule_orchestrator_refresh() (startup is extra).
MaxCalls == 3
\* The same, in the specification with fairness.
MaxFairCalls == 2
\* The same, in the specification that also exercises the cache.
MaxCacheCalls == 1
\* Explicit POST /orchestrate calls.
MaxOrch == 1
\* Largest wall-clock reading.
MaxClock == 2
\* Longest text the generation engine produces.
MaxTextLen == 2
\* Transcript files in the store when it is listed.
MaxFiles == 3
\* Largest per-persona cap given to load_transcripts.
MaxLimit == 2
\* Post-request scheduler calls in the specification that follows each
\* run_orchestrator_job step by step.
MaxJobCalls == 1
\* Most lines in a text the engine produces for a summary prompt.
MaxSummaryLines == 6
\* Concurrent persistence calls on the JSONL log and on the transcript store.
MaxWriters == 2
\* Messages in a conversation given to format_chat_prompt.
MaxMessages == 2
\* Calls of EngineManager.get_engine().
MaxGetters == 5

\* Every launch is caused by one call (directly, or through the pending flag
\* that call set), so startup + MaxCalls task slots are never exhausted.
MaxTasks == MaxCalls + 1
Tasks == 1..MaxTasks
Orchs == 1..MaxOrch
\* POST /generate requests.  Handlers of different requests share only the
\* store (one file per request id) and the scheduler, so one request is
\* followed in full detail.
Reqs == {1}
\* Callers of run_orchestrator_job: background task t is caller t, explicit
\* orchestrate call o is caller MaxTasks + o.
Callers == 1..(MaxTasks + MaxOrch)

VARIABLES
  update_task,       \* _orchestrator_update_task: 0 is None, else a task id
  refresh_pending,   \* _orchestrator_refresh_pending
  tpc,               \* per background task: position of refresh_orchestrator_state
  tout,              \* per background task: how its run_orchestrator_job ended
  ready,             \* the event loop's FIFO of ready handles
  orch_state,        \* _orchestrator_state: 0 is None, else the result (id of its run)
  orch_updated_at,   \* _orchestrator_state_updated_at: 0 is None, else a clock reading
  state_lock,        \* _orchestrator_state_lock: 0 is free, else the holder
  now,               \* last wall-clock reading taken
  opc,               \* per explicit orchestrate call: position of the handler
  oout,              \* per explicit orchestrate call: how it ended
  calls_left,        \* post-request calls the environment may still deliver
  req,               \* per /generate request: the handler's locals and position
  store,             \* chat_storage: the transcript files written so far
  vllm_available,    \* the vllm import at module load succeeded
  listing,           \* what the latest load_transcripts call was given and returned
  job,               \* per caller: the locals and position of its run_orchestrator_job
  clamped,           \* the latest summary computed from an engine text, with that text
  io,                \* ChatLogger and ChatStorage writes: lock, writers, file contents
  em,                \* EngineManager: _engine, _lock, and what each get_engine call got
  prompt,            \* the latest format_chat_prompt call: argument and what two calls gave
  \* history variables (written, never read by the program's actions)
  parent,            \* per task: 0 launched by a direct call, else the task whose
                     \* completion handler launched it
  coal,              \* the latest run of calls that arrived while a run was in flight
  unserved,          \* a call was made and no run has started since
  state_w,           \* number of the write that produced orch_state
  ts_w,              \* number of the write that produced orch_updated_at
  nwrites,           \* cache writes so far
  last_write,        \* the pair stored by the latest completed write
  last_read          \* what GET /orchestrator/state returned, when the latest step
                     \* was that read (NoRead otherwise)

schedVars == <<update_task, refresh_pending, tpc, tout, ready, calls_left>>
cacheVars == <<orch_state, orch_updated_at, state_lock, now>>
orchVars  == <<opc, oout>>
reqVars   == <<req, store, vllm_available>>
jobVars   == <<listing, job, clamped, io, em, prompt>>
histVars  == <<parent, coal, unserved, state_w, ts_w, nwrites, last_write>>
vars == <<schedVars, cacheVars, orchVars, reqVars, jobVars, histVars, last_read>>

\* last_read when the latest step was not a cache read.
NoRead == [resp |-> [code |-> 0, result |-> 0, updated_at |-> 0],
           sw |-> 0, tw |-> 0, busy |-> FALSE]

\* ------------------------------------------------------------ handles
Handle(k, id) == [k |-> k, id |-> id]
StartupHandle == Handle("startup", 0)   \* trigger_initial_orchestrator_refresh
CallHandle    == Handle("call", 0)      \* a request handler resuming after persistence
StepHandle(t) == Handle("step", t)      \* next step of background task t
CbHandle(t)   == Handle("cb", t)        \* _handle_completion of task t
OrchHandle(o) == Handle("orch", o)      \* next step of explicit orchestrate call o

InReady(h) == \E i \in 1..Len(ready) : ready[i] = h

\* ------------------------------------------------------ task predicates
\* asyncio.Task.done(): the coroutine has returned (or raised).
TaskDone(pcs, t) == pcs[t] \in {"done", "handled"}
\* A launched run that has not finished yet.
InFlight(t) == tpc[t] \in {"new", "load", "gen"}
RunsInFlight == {t \in Tasks : InFlight(t)}
\* The slot create_task() fills next.
FreshTask(pcs) == CHOOSE t \in Tasks :
                    /\ pcs[t] = "none"
                    /\ \A u \in Tasks : pcs[u] = "none" => t <= u


\* --------------------------------------------------------- RefreshScheduler
\* schedule_orchestrator_refresh() applied to the scheduler state
\* (task0, pending0, pcs); `rest` is the ready queue behind the running
\* handle, `loop` whether asyncio.get_running_loop() succeeds.  The function
\* never awaits, so it is one step.  Yields the new scheduler state and the
\* task it launched (0 when none).
ScheduleRefresh(loop, task0, pending0, pcs, rest) ==
  IF ~loop
  THEN [task |-> task0, pending |-> pending0, pcs |-> pcs, ready |-> rest, launched |-> 0]
  ELSE IF task0 # 0 /\ ~TaskDone(pcs, task0)
  THEN [task |-> task0, pending |-> TRUE, pcs |-> pcs, ready |-> rest, launched |-> 0]
  ELSE LET t == FreshTask(pcs) IN
       [task |-> t, pending |-> pending0, pcs |-> [pcs EXCEPT ![t] = "new"],
        ready |-> Append(rest, StepHandle(t)), launched |-> t]

\* HandleCompletion with the relaunch dropped: the pending flag is cleared
\* and nothing is scheduled.
HandleCompletionNoRelaunch(t, rest) ==
  [task |-> 0, pending |-> FALSE, pcs |-> [tpc EXCEPT ![t] = "handled"],
   ready |-> rest, launched |-> 0]

\* HandleCompletion with the cleanup outside the finally block: it runs only
\* for a run that succeeded.
HandleCompletionOnlyOnSuccess(t, rest) ==
  LET pcs1 == [tpc EXCEPT ![t] = "handled"] IN
  IF tout[t] # "ok"
  THEN [task |-> update_task, pending |-> refresh_pending, pcs |-> pcs1, ready |-> rest,
        launched |-> 0]
  ELSE IF refresh_pending
  THEN ScheduleRefresh(TRUE, 0, FALSE, pcs1, rest)
  ELSE [task |-> 0, pending |-> refresh_pending, pcs |-> pcs1, ready |-> rest, launched |-> 0]

\* HandleCompletion that relaunches without clearing the pending flag.
HandleCompletionKeepsPending(t, rest) ==
  LET pcs1 == [tpc EXCEPT ![t] = "handled"] IN
  IF refresh_pending
  THEN ScheduleRefresh(TRUE, 0, TRUE, pcs1, rest)
  ELSE [task |-> 0, pending |-> refresh_pending, pcs |-> pcs1, ready |-> rest, launched |-> 0]

\* _handle_completion(completed) for task t.  completed.result() cannot change
\* the scheduler; the finally block clears the handle and relaunches when the
\* pending flag is set.
HandleCompletion(t, rest) ==
  LET pcs1 == [tpc EXCEPT ![t] = "handled"] IN
  IF refresh_pending
  THEN ScheduleRefresh(TRUE, 0, FALSE, pcs1, rest)
  ELSE [task |-> 0, pending |-> refresh_pending, pcs |-> pcs1, ready |-> rest, launched |-> 0]

\* History of the latest calls that arrived while a run was in flight:
\* t the run, n how many such calls in a row, since the launches after them.
NoCoal == [t |-> 0, n |-> 0, since |-> 0]
CoalAfterCall(r) ==
  IF r.launched # 0 \/ RunsInFlight # {update_task}
  THEN NoCoal
  ELSE [t |-> update_task,
        n |-> IF coal.t = update_task THEN coal.n + 1 ELSE 1,
        since |-> 0]

\* A coroutine running on the loop calls schedule_orchestrator_refresh();
\* `rest` is the ready queue behind the running handle.
CallScheduler(rest) ==
  LET r == ScheduleRefresh(TRUE, update_task, refresh_pending, tpc, rest) IN
    /\ update_task' = r.task
    /\ refresh_pending' = r.pending
    /\ tpc' = r.pcs
    /\ ready' = r.ready
    /\ parent' = IF r.launched # 0 THEN [parent EXCEPT ![r.launched] = 0] ELSE parent
    /\ coal' = CoalAfterCall(r)
    /\ unserved' = TRUE

\* The loop runs a handle h whose step is that call.
ExternalCall(h) ==
  /\ last_read' = NoRead
  /\ ready # <<>> /\ Head(ready) = h
  /\ CallScheduler(Tail(ready))
  /\ UNCHANGED <<reqVars, jobVars, tout, calls_left, cacheVars, orchVars, state_w, ts_w, nwrites, last_write>>

\* The startup event handler trigger_initial_orchestrator_refresh.
RunStartup == ExternalCall(StartupHandle)

\* generate()/iterate_generation resumes after persist_chat_transcript and calls
\* schedule_orchestrator_refresh().
RunCall == ExternalCall(CallHandle)

\* Environment: a request's transcript write finished; its handler is woken.
RequestPersisted ==
  /\ last_read' = NoRead
  /\ calls_left > 0
  /\ calls_left' = calls_left - 1
  /\ ready' = Append(ready, CallHandle)
  /\ UNCHANGED <<reqVars, jobVars, update_task, refresh_pending, tpc, tout, cacheVars, orchVars, histVars>>

\* The loop runs the done callback of task t.
RunCallback(t) ==
  /\ last_read' = NoRead
  /\ ready # <<>> /\ Head(ready) = CbHandle(t)
  /\ LET r == HandleCompletion(t, Tail(ready)) IN
       /\ update_task' = r.task
       /\ refresh_pending' = r.pending
       /\ tpc' = r.pcs
       /\ ready' = r.ready
       /\ parent' = IF r.launched # 0 THEN [parent EXCEPT ![r.launched] = t] ELSE parent
       /\ coal' = IF r.launched # 0 THEN [coal EXCEPT !.since = @ + 1] ELSE coal
  /\ UNCHANGED <<reqVars, jobVars, tout, calls_left, cacheVars, orchVars, unserved, state_w, ts_w, nwrites,
                 last_write>>


\* ---------------------------------------------------------------- StateCache
Min(a, b) == IF a < b THEN a ELSE b
\* datetime.now(timezone.utc): a reading not before the previous one.
ClockReadings == now..Min(now + 1, MaxClock)
\* The result object a run returns, named by its run.
TaskResult(t) == t
OrchResult(o) == MaxTasks + o

\* SetOrchestratorState keeping the first timestamp: updated_at is assigned
\* only while it is None.
SetOrchestratorStateStaleStamp(result, ts) ==
  [state |-> result,
   updated_at |-> IF orch_updated_at = 0 THEN ts ELSE orch_updated_at,
   lock |-> 0,
   sw |-> nwrites + 1,
   tw |-> IF orch_updated_at = 0 THEN nwrites + 1 ELSE ts_w]

\* SetOrchestratorState without the `global` statement: the assignments bind
\* locals and the module globals keep their values.
SetOrchestratorStateNoGlobal(result, ts) ==
  [state |-> orch_state, updated_at |-> orch_updated_at, lock |-> 0,
   sw |-> state_w, tw |-> ts_w]

\* SetOrchestratorState that acquires the lock and never releases it.
SetOrchestratorStateKeepLock(result, ts) ==
  [state |-> result, updated_at |-> ts, lock |-> 1,
   sw |-> nwrites + 1, tw |-> nwrites + 1]

\* SetOrchestratorState that keeps the stored result when it comes from a run
\* created later than the one being stored.
SetOrchestratorStateKeepsLaterRun(result, ts) ==
  IF orch_state > result
  THEN [state |-> orch_state, updated_at |-> orch_updated_at, lock |-> 0,
        sw |-> state_w, tw |-> ts_w]
  ELSE [state |-> result, updated_at |-> ts, lock |-> 0,
        sw |-> nwrites + 1, tw |-> nwrites + 1]

\* _set_orchestrator_state(result) with ts the clock reading it takes: acquire
\* the lock, assign both globals, release.  No await lies inside the with
\* block, so the lock is free again when the step ends.  sw/tw number the
\* write each stored value comes from.
SetOrchestratorState(result, ts) ==
  [state |-> result, updated_at |-> ts, lock |-> 0,
   sw |-> nwrites + 1, tw |-> nwrites + 1]

\* The step of a run that stores `result`.  An asyncio.Lock that is free is
\* acquired without suspending; a held one would park the caller.
CacheWrite(result) ==
  /\ state_lock = 0
  /\ \E ts \in ClockReadings :
       LET w == SetOrchestratorState(result, ts) IN
         /\ orch_state' = w.state
         /\ orch_updated_at' = w.updated_at
         /\ state_lock' = w.lock
         /\ state_w' = w.sw
         /\ ts_w' = w.tw
         /\ now' = ts
         /\ last_write' = [result |-> result, updated_at |-> ts]
  /\ nwrites' = nwrites + 1

\* Body of get_orchestrator_state under the lock: 404 when either global is
\* None, else the stored pair.
GetOrchestratorState ==
  IF orch_state = 0 \/ orch_updated_at = 0
  THEN [code |-> 404, result |-> 0, updated_at |-> 0]
  ELSE [code |-> 200, result |-> orch_state, updated_at |-> orch_updated_at]

\* A scheduled or explicit run is being computed: launched, result not stored.
RunComputing ==
  \/ \E t \in Tasks : tpc[t] \in {"new", "load", "gen"}
  \/ \E o \in Orchs : opc[o] \in {"new", "load", "gen"}

\* A read that hands the snapshot out and empties the cache.
ReadStateConsumes ==
  /\ state_lock = 0
  /\ last_read' = [resp |-> GetOrchestratorState, sw |-> state_w, tw |-> ts_w,
                   busy |-> RunComputing]
  /\ orch_state' = 0
  /\ orch_updated_at' = 0
  /\ UNCHANGED <<reqVars, jobVars, schedVars, state_lock, now, orchVars, parent, coal, unserved,
                 state_w, ts_w, nwrites, last_write>>

\* GET /orchestrator/state: one step, no await inside the lock.
ReadState ==
  /\ state_lock = 0
  /\ last_read' = [resp |-> GetOrchestratorState, sw |-> state_w, tw |-> ts_w,
                   busy |-> RunComputing]
  /\ UNCHANGED <<reqVars, jobVars, schedVars, cacheVars, orchVars, parent, coal, unserved, state_w, ts_w,
                 nwrites, last_write>>

\* ------------------------------------------- refresh_orchestrator_state (task)
\* First step of the task: run_orchestrator_job awaits load_transcripts.
TaskStart(t) ==
  /\ last_read' = NoRead
  /\ ready # <<>> /\ Head(ready) = StepHandle(t)
  /\ tpc[t] = "new"
  /\ tpc' = [tpc EXCEPT ![t] = "load"]
  /\ ready' = Tail(ready)
  /\ unserved' = FALSE
  /\ UNCHANGED <<reqVars, jobVars, update_task, refresh_pending, tout, calls_left, cacheVars, orchVars, parent,
                 coal, state_w, ts_w, nwrites, last_write>>

\* Environment: the awaited thread-pool load or engine generation completed.
TaskIOComplete(t) ==
  /\ last_read' = NoRead
  /\ tpc[t] \in {"load", "gen"}
  /\ ~InReady(StepHandle(t))
  /\ ready' = Append(ready, StepHandle(t))
  /\ UNCHANGED <<reqVars, jobVars, update_task, refresh_pending, tpc, tout, calls_left, cacheVars, orchVars,
                 histVars>>

\* Transcripts were found: the job builds the summary prompts and awaits
\* generate_text_response.
TaskLoaded(t) ==
  /\ last_read' = NoRead
  /\ ready # <<>> /\ Head(ready) = StepHandle(t)
  /\ tpc[t] = "load"
  /\ tpc' = [tpc EXCEPT ![t] = "gen"]
  /\ ready' = Tail(ready)
  /\ UNCHANGED <<reqVars, jobVars, update_task, refresh_pending, tout, calls_left, cacheVars, orchVars, histVars>>

\* How run_orchestrator_job can fail when resumed at pc: ValueError when
\* nothing was loaded, any other exception from the store or the engine.
JobFailures(pc) == IF pc = "load" THEN {"notranscripts", "error"} ELSE {"error"}

\* The job raised: refresh_orchestrator_state logs and returns, the task is
\* done and the loop queues its done callback.
TaskJobFailed(t) ==
  /\ last_read' = NoRead
  /\ ready # <<>> /\ Head(ready) = StepHandle(t)
  /\ tpc[t] \in {"load", "gen"}
  /\ \E f \in JobFailures(tpc[t]) : tout' = [tout EXCEPT ![t] = f]
  /\ tpc' = [tpc EXCEPT ![t] = "done"]
  /\ ready' = Append(Tail(ready), CbHandle(t))
  /\ UNCHANGED <<reqVars, jobVars, update_task, refresh_pending, calls_left, cacheVars, orchVars, histVars>>

\* The job returned: the result is cached in the same step, the task is done.
TaskJobDone(t) ==
  /\ last_read' = NoRead
  /\ ready # <<>> /\ Head(ready) = StepHandle(t)
  /\ tpc[t] = "gen"
  /\ CacheWrite(TaskResult(t))
  /\ tpc' = [tpc EXCEPT ![t] = "done"]
  /\ tout' = [tout EXCEPT ![t] = "ok"]
  /\ ready' = Append(Tail(ready), CbHandle(t))
  /\ UNCHANGED <<reqVars, jobVars, update_task, refresh_pending, calls_left, orchVars, parent, coal, unserved>>

\* ------------------------------------------------------- orchestrate (explicit)
\* Environment: POST /orchestrate arrives; its handler task is queued.
OrchestrateArrives(o) ==
  /\ last_read' = NoRead
  /\ opc[o] = "none"
  /\ \A p \in Orchs : p < o => opc[p] # "none"
  /\ opc' = [opc EXCEPT ![o] = "new"]
  /\ ready' = Append(ready, OrchHandle(o))
  /\ UNCHANGED <<reqVars, jobVars, update_task, refresh_pending, tpc, tout, calls_left, cacheVars, oout, histVars>>

OrchStart(o) ==
  /\ last_read' = NoRead
  /\ ready # <<>> /\ Head(ready) = OrchHandle(o)
  /\ opc[o] = "new"
  /\ opc' = [opc EXCEPT ![o] = "load"]
  /\ ready' = Tail(ready)
  /\ UNCHANGED <<reqVars, jobVars, update_task, refresh_pending, tpc, tout, calls_left, cacheVars, oout, histVars>>

OrchIOComplete(o) ==
  /\ last_read' = NoRead
  /\ opc[o] \in {"load", "gen"}
  /\ ~InReady(OrchHandle(o))
  /\ ready' = Append(ready, OrchHandle(o))
  /\ UNCHANGED <<reqVars, jobVars, update_task, refresh_pending, tpc, tout, calls_left, cacheVars, orchVars,
                 histVars>>

OrchLoaded(o) ==
  /\ last_read' = NoRead
  /\ ready # <<>> /\ Head(ready) = OrchHandle(o)
  /\ opc[o] = "load"
  /\ opc' = [opc EXCEPT ![o] = "gen"]
  /\ ready' = Tail(ready)
  /\ UNCHANGED <<reqVars, jobVars, update_task, refresh_pending, tpc, tout, calls_left, cacheVars, oout, histVars>>

\* The job raised: HTTP 404 for ValueError, 500 otherwise; nothing is cached.
OrchJobFailed(o) ==
  /\ last_read' = NoRead
  /\ ready # <<>> /\ Head(ready) = OrchHandle(o)
  /\ opc[o] \in {"load", "gen"}
  /\ \E f \in JobFailures(opc[o]) : oout' = [oout EXCEPT ![o] = f]
  /\ opc' = [opc EXCEPT ![o] = "done"]
  /\ ready' = Tail(ready)
  /\ UNCHANGED <<reqVars, jobVars, update_task, refresh_pending, tpc, tout, calls_left, cacheVars, histVars>>

\* The job returned: the handler caches the result and answers with it.
OrchJobDone(o) ==
  /\ last_read' = NoRead
  /\ ready # <<>> /\ Head(ready) = OrchHandle(o)
  /\ opc[o] = "gen"
  /\ CacheWrite(OrchResult(o))
  /\ opc' = [opc EXCEPT ![o] = "done"]
  /\ oout' = [oout EXCEPT ![o] = "ok"]
  /\ ready' = Tail(ready)
  /\ UNCHANGED <<reqVars, jobVars, update_task, refresh_pending, tpc, tout, calls_left, parent, coal, unserved>>

\* ------------------------------------------------- generate (POST /generate)
\* Characters of generated text: one printing character and one blank.
Alphabet == {"a", " "}
Texts == UNION {[1..n -> Alphabet] : n \in 0..MaxTextLen}
\* finish_reason of a generation; "none" is None.
FinishReasons == {"none", "stop"}
\* What one item of engine.generate() carries: no outputs, or outputs[0].
EngineOutputs ==
  {[outputs |-> FALSE, text |-> <<>>, finish_reason |-> "none"]} \cup
  {[outputs |-> TRUE, text |-> t, finish_reason |-> f] : t \in Texts, f \in FinishReasons}

\* Conversations a client posts (ChatMessage: role, content).
UserHello == [role |-> "user", content |-> "Hello"]
AssistantEmpty == [role |-> "assistant", content |-> ""]
Conversations == {<<>>, <<UserHello>>, <<UserHello, AssistantEmpty>>}

\* serialise_messages: model_dump() of each message, in order.
SerialiseMessages(ms) ==
  [i \in 1..Len(ms) |-> [role |-> ms[i].role, content |-> ms[i].content]]

\* text[n:]
Drop(text, n) == IF n >= Len(text) THEN <<>> ELSE SubSeq(text, n + 1, Len(text))

\* str.strip()
RECURSIVE LStrip(_)
LStrip(text) ==
  IF text # <<>> /\ Head(text) = " " THEN LStrip(Tail(text)) ELSE text
RECURSIVE RStrip(_)
RStrip(text) ==
  IF text # <<>> /\ text[Len(text)] = " "
  THEN RStrip(SubSeq(text, 1, Len(text) - 1)) ELSE text
Strip(text) == RStrip(LStrip(text))

\* Optional[str] persona: None, or a text (a sequence of characters).
NonePersona == [given |-> FALSE, text |-> <<>>]
Given(text) == [given |-> TRUE, text |-> text]
\* Personas a client sends with a request: none, whitespace only, a name.
RequestPersonas == {NonePersona, Given(<<" ">>), Given(<<"p">>)}
\* The literal "general".
General == <<"g", "e", "n", "e", "r", "a", "l">>
\* `payload.get("persona") or "general"`: the key load_transcripts groups a
\* stored transcript under.  None and the empty text are falsy.
PersonaKey(persona) ==
  IF ~persona.given \/ persona.text = <<>> THEN General ELSE persona.text

NoTranscript == [request_id |-> 0, messages |-> <<>>, response_text |-> <<>>,
                 finish_reason |-> "none", persona |-> NonePersona,
                 created_at |-> 0]
\* An event of the NDJSON stream (fields a kind does not carry are blank).
Event(type, delta, content, finish_reason, request_id) ==
  [type |-> type, delta |-> delta, content |-> content,
   finish_reason |-> finish_reason, request_id |-> request_id]
TokenEvent(delta, content, rid) == Event("token", delta, content, "none", rid)
DoneEvent(content, finish_reason, rid) == Event("done", <<>>, content, finish_reason, rid)
ErrorEvent(rid) == Event("error", <<>>, <<>>, "none", rid)
\* Body of the buffered response; request_id 0 while there is none.
NoResponse == [output |-> <<>>, finish_reason |-> "none", request_id |-> 0]

\* A request that has not arrived.  pc is the handler's position; text is
\* previous_text (streamed) or latest_text (buffered); transcript is the
\* ChatTranscript handed to save_transcript; events is what the streamed
\* response has sent, response the buffered body.
\* History fields: received (an engine item has arrived), saved (how the
\* write ended), log (the handler's calls and outcomes, in order), seen (the
\* strictly growing cumulative texts yielded so far), monotone (every
\* yielded text so far extended the one before it), reason and last_text
\* (finish_reason and text of the latest item that had outputs).
NoRequest == [pc |-> "none", stream |-> FALSE, messages |-> <<>>,
              persona |-> NonePersona, text |-> <<>>,
              finish_reason |-> "none", transcript |-> NoTranscript,
              events |-> <<>>, response |-> NoResponse,
              received |-> FALSE, saved |-> "none",
              log |-> <<>>, seen |-> <<>>, monotone |-> TRUE, reason |-> "none",
              last_text |-> <<>>]

\* uuid4().hex: the next unused id.
NewRequestId == CHOOSE r \in Reqs :
                  /\ req[r].pc = "none"
                  /\ \A u \in Reqs : req[u].pc = "none" => r <= u

ReqFrame == UNCHANGED <<schedVars, orch_state, orch_updated_at, state_lock,
                        orchVars, histVars, vllm_available, jobVars>>

\* Where generate() stands at its first suspension or return: HTTP 400 for an
\* empty conversation (format_chat_prompt) or rejected sampling parameters,
\* the StreamingResponse for a streamed request, else get_engine() (which
\* may raise) and the first wait on engine.generate().
GenerateOutcomeAcceptsEmpty(ms, stream, params_ok, engine_ok) ==
  IF ~params_ok THEN "rejected"
  ELSE IF stream THEN "open"
  ELSE IF engine_ok THEN "gen" ELSE "failed"

GenerateOutcome(ms, stream, params_ok, engine_ok) ==
  IF ms = <<>> \/ ~params_ok THEN "rejected"
  ELSE IF stream THEN "open"
  ELSE IF engine_ok THEN "gen" ELSE "failed"

\* What a position reached from the start adds to the log.
StartLog(pc) == IF pc = "gen" THEN <<"engine">>
                ELSE IF pc = "failed" THEN <<"raise">> ELSE <<>>

\* build_sampling_params calls SamplingParams, which is None when the vllm
\* import failed: the call raises and the request is rejected.
Generate(r) ==
  /\ last_read' = NoRead
  /\ \E u \in Reqs : req[u].pc = "none"
  /\ r = NewRequestId
  /\ \E ms \in Conversations, stream \in BOOLEAN, params_valid \in BOOLEAN,
        engine_ok \in BOOLEAN, persona \in RequestPersonas :
       LET pc == GenerateOutcome(ms, stream, vllm_available /\ params_valid, engine_ok) IN
       req' = [req EXCEPT ![r] = [NoRequest EXCEPT !.pc = pc, !.stream = stream,
                                                   !.messages = ms,
                                                   !.persona = persona,
                                                   !.log = StartLog(pc)]]
  /\ UNCHANGED <<store, now>>
  /\ ReqFrame

\* iterate_generation up to its first suspension: get_engine() is outside
\* the try block, so its exception propagates without an error event.
IterateGenerationStart(r) ==
  /\ last_read' = NoRead
  /\ req[r].pc = "open"
  /\ \E engine_ok \in BOOLEAN :
       LET pc == IF engine_ok THEN "gen" ELSE "failed" IN
       req' = [req EXCEPT ![r].pc = pc, ![r].log = req[r].log \o StartLog(pc)]
  /\ UNCHANGED <<store, now>>
  /\ ReqFrame

\* The transcript persist_chat_transcript builds for request q.
BuildTranscript(q, rid, ts) ==
  [request_id |-> rid,
   messages |-> SerialiseMessages(q.messages),
   response_text |-> IF q.stream THEN q.text ELSE Strip(q.text),
   finish_reason |-> q.finish_reason,
   persona |-> q.persona,
   created_at |-> ts]

\* The loop body for one item of engine.generate(), request q with id rid.
AfterItemPersistsEarly(q, rid, out) ==
  [q EXCEPT !.text = out.text, !.log = q.log \o <<"persist">>]

AfterItemRelaysWhole(q, rid, out) ==
  IF ~out.outputs THEN q
  ELSE IF q.stream /\ Drop(out.text, Len(q.text)) # <<>>
  THEN [q EXCEPT !.text = out.text,
                 !.finish_reason = out.finish_reason,
                 !.events = Append(q.events, TokenEvent(out.text, out.text, rid))]
  ELSE [q EXCEPT !.text = IF q.stream THEN q.text ELSE out.text,
                 !.finish_reason = out.finish_reason]

AfterItem(q, rid, out) ==
  IF ~out.outputs THEN q
  ELSE IF q.stream
  THEN LET delta == Drop(out.text, Len(q.text)) IN
       IF delta # <<>>
       THEN [q EXCEPT !.text = out.text,
                      !.finish_reason = out.finish_reason,
                      !.events = Append(q.events, TokenEvent(delta, out.text, rid))]
       ELSE [q EXCEPT !.finish_reason = out.finish_reason]
  ELSE [q EXCEPT !.text = out.text, !.finish_reason = out.finish_reason]

IsPrefix(s, t) == Len(s) <= Len(t) /\ SubSeq(t, 1, Len(s)) = s
LastSeen(q) == IF q.seen = <<>> THEN <<>> ELSE q.seen[Len(q.seen)]
\* History of the yielded texts after one more item.
Observe(q, q0, out) ==
  LET q1 == [q EXCEPT !.received = TRUE,
                      !.reason = IF out.outputs THEN out.finish_reason ELSE q0.reason,
                      !.last_text = IF out.outputs THEN out.text ELSE q0.last_text] IN
  IF ~out.outputs \/ ~q0.monotone \/ out.text = LastSeen(q0) THEN q1
  ELSE IF IsPrefix(LastSeen(q0), out.text)
  THEN [q1 EXCEPT !.seen = Append(q0.seen, out.text)]
  ELSE [q1 EXCEPT !.monotone = FALSE]

\* One item of engine.generate() arrives.
EngineYields(r) ==
  /\ last_read' = NoRead
  /\ req[r].pc = "gen"
  /\ \E out \in EngineOutputs :
       req' = [req EXCEPT ![r] = Observe(AfterItem(req[r], r, out), req[r], out)]
  /\ UNCHANGED <<store, now>>
  /\ ReqFrame

\* engine.generate() is exhausted: persist_chat_transcript builds the
\* transcript (stamped with the clock) and awaits save_transcript.
EngineEnds(r) ==
  /\ last_read' = NoRead
  /\ req[r].pc = "gen"
  /\ req' = [req EXCEPT
               ![r].pc = "persist",
               ![r].transcript = BuildTranscript(req[r], r, now),
               ![r].log = Append(req[r].log, "persist")]
  /\ UNCHANGED <<store, now>>
  /\ ReqFrame

\* engine.generate() raises.  Streamed: the error event is sent and the
\* exception re-raised; buffered: it propagates.  Nothing is persisted.
AfterRaise(q, rid) ==
  [q EXCEPT !.pc = "failed",
            !.events = IF q.stream THEN Append(q.events, ErrorEvent(rid)) ELSE q.events,
            !.log = Append(q.log, "raise")]

EngineRaises(r) ==
  /\ last_read' = NoRead
  /\ req[r].pc = "gen"
  /\ req' = [req EXCEPT ![r] = AfterRaise(req[r], r)]
  /\ UNCHANGED <<store, now>>
  /\ ReqFrame

\* The rest of the handler once save_transcript has returned (ok) or raised
\* (~ok; persist_chat_transcript swallows the exception): the call of
\* schedule_orchestrator_refresh(), then the done event or the buffered body.
\* `schedule` tells whether the scheduler is called.
AfterSaveRaisesOnFailure(q, rid, ok) ==
  IF ok
  THEN [q |-> [q EXCEPT !.pc = "done", !.saved = "ok",
                        !.events = IF q.stream
                                   THEN Append(q.events, DoneEvent(q.text, q.finish_reason, rid))
                                   ELSE q.events,
                        !.response = IF q.stream THEN q.response
                                     ELSE [output |-> Strip(q.text),
                                           finish_reason |-> q.finish_reason,
                                           request_id |-> rid],
                        !.log = q.log \o <<"saved", "schedule", "respond">>],
        schedule |-> TRUE]
  ELSE [q |-> [q EXCEPT !.pc = "failed", !.saved = "failed",
                        !.log = q.log \o <<"save_failed", "raise">>],
        schedule |-> FALSE]

AfterSaveRespondsFirst(q, rid, ok) ==
  [q |-> [q EXCEPT !.pc = "done",
                   !.saved = IF ok THEN "ok" ELSE "failed",
                   !.events = IF q.stream
                              THEN Append(q.events, DoneEvent(q.text, q.finish_reason, rid))
                              ELSE q.events,
                   !.response = IF q.stream THEN q.response
                                ELSE [output |-> Strip(q.text),
                                      finish_reason |-> q.finish_reason,
                                      request_id |-> rid],
                   !.log = q.log \o <<IF ok THEN "saved" ELSE "save_failed",
                                      "respond", "schedule">>],
   schedule |-> TRUE]

AfterSave(q, rid, ok) ==
  [q |-> [q EXCEPT !.pc = "done",
                   !.saved = IF ok THEN "ok" ELSE "failed",
                   !.events = IF q.stream
                              THEN Append(q.events, DoneEvent(q.text, q.finish_reason, rid))
                              ELSE q.events,
                   !.response = IF q.stream THEN q.response
                                ELSE [output |-> Strip(q.text),
                                      finish_reason |-> q.finish_reason,
                                      request_id |-> rid],
                   !.log = q.log \o <<IF ok THEN "saved" ELSE "save_failed",
                                      "schedule", "respond">>],
   schedule |-> TRUE]

\* The write thread of save_transcript returns and the handler runs to its end.
SaveTranscriptReturns(r) ==
  /\ last_read' = NoRead
  /\ req[r].pc = "persist"
  /\ \E ok \in BOOLEAN :
       LET a == AfterSave(req[r], r, ok) IN
       /\ store' = IF ok THEN store \cup {req[r].transcript} ELSE store
       /\ req' = [req EXCEPT ![r] = a.q]
       /\ IF a.schedule
          THEN CallScheduler(ready)
          ELSE UNCHANGED <<update_task, refresh_pending, tpc, ready, parent, coal, unserved>>
  /\ UNCHANGED <<tout, calls_left, cacheVars, orchVars, state_w, ts_w, nwrites,
                 last_write, vllm_available, jobVars>>

\* The client of a streamed response goes away: the response task is
\* cancelled at its suspension point (CancelledError is not an Exception).
\* A write already handed to the thread pool still runs to its end.
ClientDisconnects(r) ==
  /\ last_read' = NoRead
  /\ req[r].stream
  /\ req[r].pc \in {"open", "gen", "persist"}
  /\ IF req[r].pc = "persist"
     THEN \E ok \in BOOLEAN :
            /\ store' = IF ok THEN store \cup {req[r].transcript} ELSE store
            /\ req' = [req EXCEPT ![r].pc = "cancelled",
                                  ![r].saved = IF ok THEN "ok" ELSE "failed",
                                  ![r].log = Append(req[r].log, "disconnect")]
     ELSE /\ store' = store
          /\ req' = [req EXCEPT ![r].pc = "cancelled",
                                ![r].log = Append(req[r].log, "disconnect")]
  /\ UNCHANGED now
  /\ ReqFrame

\* ------------------------------------------------- ChatStorage.load_transcripts
\* Characters are lower-cased one by one.
LowerChar(c) == IF c = "P" THEN "p" ELSE c
Lower(text) == [i \in 1..Len(text) |-> LowerChar(text[i])]
\* Personas found in stored transcripts.
StorePersonas == {NonePersona, Given(<<"p">>), Given(<<"P">>), Given(<<"p", "!">>)}

\* The characters of the model's personas that [a-z0-9] matches.
SlugChars == {"a", "e", "g", "l", "n", "p", "r", "x"}
\* re.sub(r"[^a-z0-9]+", "-", text): each run of other characters becomes
\* one "-".
RECURSIVE CollapseRuns(_, _)
CollapseRuns(text, in_run) ==
  IF text = <<>> THEN <<>>
  ELSE IF Head(text) \in SlugChars THEN <<Head(text)>> \o CollapseRuns(Tail(text), FALSE)
  ELSE IF in_run THEN CollapseRuns(Tail(text), TRUE)
  ELSE <<"-">> \o CollapseRuns(Tail(text), TRUE)
\* str.strip("-")
RECURSIVE StripDashes(_)
StripDashes(text) ==
  IF text # <<>> /\ Head(text) = "-" THEN StripDashes(Tail(text))
  ELSE IF text # <<>> /\ text[Len(text)] = "-"
  THEN StripDashes(SubSeq(text, 1, Len(text) - 1))
  ELSE text
\* _normalise_persona(persona): the directory a transcript is stored under.
NormalisePersona(persona) ==
  IF ~persona.given \/ persona.text = <<>> THEN General
  ELSE LET slug == StripDashes(CollapseRuns(Lower(Strip(persona.text)), FALSE))
       IN IF slug = <<>> THEN General ELSE slug
\* personas argument: None, or a list of names; the filter is the set of
\* their p.strip().lower() (None when the list is empty or absent).
PersonaArgs == {<<>>, <<<<"p">>>>, <<<<" ", "P">>>>, <<<<"x">>>>}
PersonaFilter(personas) == {Lower(Strip(personas[i])) : i \in 1..Len(personas)}
\* limit_per_persona: 0 stands for None (and is falsy like it).
Limits == 0..MaxLimit

\* list.sort(key=created_at): stable, ascending.
RECURSIVE InsertAsc(_, _)
InsertAsc(x, sorted) ==
  IF sorted = <<>> THEN <<x>>
  ELSE IF x.created_at < Head(sorted).created_at THEN <<x>> \o sorted
  ELSE <<Head(sorted)>> \o InsertAsc(x, Tail(sorted))
RECURSIVE SortAsc(_)
SortAsc(items) ==
  IF items = <<>> THEN <<>>
  ELSE InsertAsc(items[Len(items)], SortAsc(SubSeq(items, 1, Len(items) - 1)))
\* list.sort(key=created_at, reverse=True): descending, equal keys keep
\* their original order.
RECURSIVE InsertDesc(_, _)
InsertDesc(x, sorted) ==
  IF sorted = <<>> THEN <<x>>
  ELSE IF x.created_at > Head(sorted).created_at THEN <<x>> \o sorted
  ELSE <<Head(sorted)>> \o InsertDesc(x, Tail(sorted))
RECURSIVE SortDesc(_)
SortDesc(items) ==
  IF items = <<>> THEN <<>>
  ELSE InsertDesc(items[Len(items)], SortDesc(SubSeq(items, 1, Len(items) - 1)))

\* items[:n]
Take(items, n) == SubSeq(items, 1, Min(n, Len(items)))

\* The dict built by the first loop: groups [persona, items] in insertion
\* order, from the files in discovery order.
RECURSIVE GroupFiles(_, _, _)
GroupFiles(files, personas, groups) ==
  IF files = <<>> THEN groups
  ELSE LET f == Head(files)
           key == PersonaKey(f.persona)
           skip == personas # <<>> /\ Lower(Strip(key)) \notin PersonaFilter(personas)
           at == {i \in 1..Len(groups) : groups[i].persona = key}
           next == IF skip THEN groups
                   ELSE IF at = {} THEN Append(groups, [persona |-> key, items |-> <<f>>])
                   ELSE [i \in 1..Len(groups) |->
                           IF i \in at
                           THEN [groups[i] EXCEPT !.items = Append(groups[i].items, f)]
                           ELSE groups[i]]
       IN GroupFiles(Tail(files), personas, next)

\* The second loop, with the cap: newest first, cut, oldest first again.
LimitGroupKeepsOldest(group, limit) ==
  [group EXCEPT !.items = Take(SortAsc(group.items), limit)]

LimitGroup(group, limit) ==
  IF limit # 0
  THEN [group EXCEPT !.items = SortAsc(Take(SortDesc(group.items), limit))]
  ELSE [group EXCEPT !.items = SortAsc(group.items)]

\* _load_transcripts_sync(personas, limit_per_persona) over the files.
LoadTranscriptsSync(files, personas, limit) ==
  LET groups == GroupFiles(files, personas, <<>>) IN
  [i \in 1..Len(groups) |-> LimitGroup(groups[i], limit)]

\* sorted(rglob("*.json")): the files in path order.  The order among
\* the files is left open (it depends on slugs and request ids).
RECURSIVE Orders(_)
Orders(set) ==
  IF set = {} THEN {<<>>}
  ELSE UNION {{<<x>> \o rest : rest \in Orders(set \ {x})} : x \in set}

NoListing == [called |-> FALSE, personas |-> <<>>, limit |-> 0, result |-> <<>>]

\* A call of chat_storage.load_transcripts (the result is a function of the
\* store and the arguments, so one call per store is followed).
LoadTranscripts ==
  /\ last_read' = NoRead
  /\ ~listing.called
  /\ \E personas \in PersonaArgs, limit \in Limits, files \in Orders(store) :
       listing' = [called |-> TRUE, personas |-> personas, limit |-> limit,
                   result |-> LoadTranscriptsSync(files, personas, limit)]
  /\ UNCHANGED <<reqVars, prompt, job, clamped, io, em, schedVars, cacheVars, orchVars, histVars>>

\* ------------------------------------------------------ run_orchestrator_job
ORCHESTRATOR_DEFAULT_MAX_TRANSCRIPTS == 5
ORCHESTRATOR_DEFAULT_SUMMARY_TOKENS == 512
ORCHESTRATOR_DEFAULT_REQUIREMENTS_TOKENS == 1024
\* max_lines given to clamp_lines for a summary.
SummaryMaxLines == 5

\* The keyword arguments of run_orchestrator_job (personas <<>> when None
\* or empty).
Params(personas, cap, summary_tokens, requirements_tokens, include) ==
  [personas |-> personas, max_transcripts_per_persona |-> cap,
   summary_max_tokens |-> summary_tokens,
   requirements_max_tokens |-> requirements_tokens,
   include_requirements |-> include]

\* refresh_orchestrator_state with the requirements document switched on.
RefreshParamsWithRequirements ==
  Params(<<>>, ORCHESTRATOR_DEFAULT_MAX_TRANSCRIPTS, ORCHESTRATOR_DEFAULT_SUMMARY_TOKENS,
         ORCHESTRATOR_DEFAULT_REQUIREMENTS_TOKENS, TRUE)

\* The arguments refresh_orchestrator_state passes.
RefreshParams ==
  Params(<<>>, ORCHESTRATOR_DEFAULT_MAX_TRANSCRIPTS, ORCHESTRATOR_DEFAULT_SUMMARY_TOKENS,
         ORCHESTRATOR_DEFAULT_REQUIREMENTS_TOKENS, FALSE)

\* OrchestratorRequest payloads: all personas with and without the
\* requirements document, or one persona nobody used; the other fields at
\* their defaults.
OrchestratorRequests ==
  {Params(<<>>, ORCHESTRATOR_DEFAULT_MAX_TRANSCRIPTS, ORCHESTRATOR_DEFAULT_SUMMARY_TOKENS,
          ORCHESTRATOR_DEFAULT_REQUIREMENTS_TOKENS, include) : include \in BOOLEAN}
  \cup {Params(<<<<"x">>>>, ORCHESTRATOR_DEFAULT_MAX_TRANSCRIPTS,
               ORCHESTRATOR_DEFAULT_SUMMARY_TOKENS,
               ORCHESTRATOR_DEFAULT_REQUIREMENTS_TOKENS, TRUE)}

\* str.strip() and str.rstrip() over blanks and line ends.
RECURSIVE LStripWs(_)
LStripWs(text) ==
  IF text # <<>> /\ Head(text) \in {" ", "\n"} THEN LStripWs(Tail(text)) ELSE text
RECURSIVE RStripWs(_)
RStripWs(text) ==
  IF text # <<>> /\ text[Len(text)] \in {" ", "\n"}
  THEN RStripWs(SubSeq(text, 1, Len(text) - 1)) ELSE text
StripWs(text) == RStripWs(LStripWs(text))

\* str.splitlines() of a text that neither starts nor ends with a line end.
RECURSIVE SplitLines(_, _)
SplitLines(text, line) ==
  IF text = <<>> THEN <<line>>
  ELSE IF Head(text) = "\n" THEN <<line>> \o SplitLines(Tail(text), <<>>)
  ELSE SplitLines(Tail(text), Append(line, Head(text)))

\* "\n".join(lines)
RECURSIVE JoinLines(_)
JoinLines(lines) ==
  IF lines = <<>> THEN <<>>
  ELSE IF Len(lines) = 1 THEN lines[1]
  ELSE lines[1] \o <<"\n">> \o JoinLines(Tail(lines))

\* clamp_lines without the slice: every line is kept.
clamp_lines_unlimited(text, max_lines) ==
  IF text = <<>> THEN text
  ELSE LET stripped == StripWs(text)
           lines == IF stripped = <<>> THEN <<>> ELSE SplitLines(stripped, <<>>)
       IN StripWs(JoinLines([i \in 1..Len(lines) |-> RStripWs(lines[i])]))

\* clamp_lines(text, max_lines=max_lines)
clamp_lines(text, max_lines) ==
  IF text = <<>> THEN text
  ELSE LET stripped == StripWs(text)
           lines == IF stripped = <<>> THEN <<>> ELSE SplitLines(stripped, <<>>)
           limited == Take([i \in 1..Len(lines) |-> RStripWs(lines[i])], max_lines)
       IN StripWs(JoinLines(limited))

\* The latest text engine.generate() yields for a summary or requirements
\* prompt ("" also when it yields nothing).
JobTexts == {<<>>, <<" ">>, <<"a">>}

\* What run_orchestrator_job stores for a persona whose summary prompt made
\* the engine end with latest_text: generate_text_response strips it, then
\* clamp_lines cuts it.
SummaryText(latest_text) == clamp_lines(StripWs(latest_text), SummaryMaxLines)

\* Engine texts of up to MaxSummaryLines lines, each empty, a word, or a
\* word between blanks.
SummaryLines == {<<>>, <<"a">>, <<" ", "b", " ">>}
SummaryTexts ==
  UNION {{JoinLines(lines) : lines \in [1..n -> SummaryLines]} : n \in 0..MaxSummaryLines}

NoSummary == [called |-> FALSE, latest_text |-> <<>>, summary |-> <<>>]

\* The summary statement of run_orchestrator_job on some engine text.
Summarise ==
  /\ last_read' = NoRead
  /\ ~clamped.called
  /\ \E latest_text \in SummaryTexts :
       clamped' = [called |-> TRUE, latest_text |-> latest_text,
                   summary |-> SummaryText(latest_text)]
  /\ UNCHANGED <<reqVars, prompt, listing, job, io, em, schedVars, cacheVars, orchVars, histVars>>

\* A generate_text_response call as the job makes it.
SummaryCall(persona, max_tokens) ==
  [kind |-> "summary", persona |-> persona, max_tokens |-> max_tokens]
RequirementsCall(max_tokens) ==
  [kind |-> "requirements", persona |-> <<>>, max_tokens |-> max_tokens]

\* The locals of one run_orchestrator_job call.  pc: none, load (awaiting
\* load_transcripts), summary / requirements (awaiting generate_text_response),
\* returned, raised.  `calls` lists the generation calls made so far.
NoParams == Params(<<>>, 0, 0, 0, FALSE)
NoJob ==
  [pc |-> "none", params |-> NoParams, groups |-> <<>>, next |-> 0,
   summaries |-> <<>>, requirements_document |-> <<>>, calls |-> <<>>,
   raised |-> "none"]

\* The call: everything up to the await of chat_storage.load_transcripts.
JobStart(params) == [NoJob EXCEPT !.pc = "load", !.params = params]

\* `if not transcripts: continue`: the first group from position i on that
\* holds a transcript.
RECURSIVE NextGroup(_, _)
NextGroup(groups, i) ==
  IF i > Len(groups) THEN i
  ELSE IF groups[i].items = <<>> THEN NextGroup(groups, i + 1)
  ELSE i

JobRaise(j, what) == [j EXCEPT !.pc = "raised", !.raised = what]

\* The loop that asks for the requirements document whatever the flag.
JobContinueAlwaysRequirements(j) ==
  IF j.next <= Len(j.groups)
  THEN [j EXCEPT !.pc = "summary",
                 !.calls = Append(@, SummaryCall(j.groups[j.next].persona,
                                                 j.params.summary_max_tokens))]
  ELSE IF j.summaries = <<>> THEN JobRaise(j, "notranscripts")
  ELSE [j EXCEPT !.pc = "requirements",
                 !.calls = Append(@, RequirementsCall(j.params.requirements_max_tokens))]

\* From the head of the summary loop to the next await or the end: the next
\* summary call, or after the loop ValueError for no summaries, the
\* requirements call, or the return.
JobContinue(j) ==
  IF j.next <= Len(j.groups)
  THEN [j EXCEPT !.pc = "summary",
                 !.calls = Append(@, SummaryCall(j.groups[j.next].persona,
                                                 j.params.summary_max_tokens))]
  ELSE IF j.summaries = <<>> THEN JobRaise(j, "notranscripts")
  ELSE IF j.params.include_requirements
  THEN [j EXCEPT !.pc = "requirements",
                 !.calls = Append(@, RequirementsCall(j.params.requirements_max_tokens))]
  ELSE [j EXCEPT !.pc = "returned", !.requirements_document = <<>>]

\* load_transcripts returned `groups`.
JobLoaded(j, groups) ==
  IF groups = <<>> THEN JobRaise(j, "notranscripts")
  ELSE JobContinue([j EXCEPT !.groups = groups, !.next = NextGroup(groups, 1)])

\* generate_text_response returned latest_text.strip() for `latest_text`.
JobGenerated(j, latest_text) ==
  IF j.pc = "summary"
  THEN JobContinue([j EXCEPT
         !.summaries = Append(@, [persona |-> j.groups[j.next].persona,
                                  text |-> SummaryText(latest_text)]),
         !.next = NextGroup(j.groups, j.next + 1)])
  ELSE [j EXCEPT !.pc = "returned", !.requirements_document = StripWs(latest_text)]

\* Where the job can be after the await it is suspended in completes: the
\* store is listed in some path order, the engine produces some text, or
\* either raises.
JobResumes(j) ==
  IF j.pc = "load"
  THEN {JobLoaded(j, LoadTranscriptsSync(files, j.params.personas,
                                         j.params.max_transcripts_per_persona)) :
          files \in Orders(store)} \cup {JobRaise(j, "error")}
  ELSE {JobGenerated(j, text) : text \in JobTexts} \cup {JobRaise(j, "error")}

JobEnded(j) == j.pc \in {"returned", "raised"}
JobOutcome(j) == IF j.pc = "returned" THEN "ok" ELSE j.raised

\* A caller that stores whatever the job ended with.
CachesAlways(j) == JobEnded(j)

\* refresh_orchestrator_state and orchestrate reach _set_orchestrator_state
\* only when run_orchestrator_job returned.
Caches(j) == j.pc = "returned"

\* orchestrate answering every failure with 500.
OrchestrateStatusAll500(outcome) == IF outcome = "ok" THEN "200" ELSE "500"

\* HTTP status of POST /orchestrate: 404 for ValueError, 500 for any other
\* exception.
OrchestrateStatus(outcome) ==
  IF outcome = "ok" THEN "200" ELSE IF outcome = "notranscripts" THEN "404" ELSE "500"

\* First step of background task t, following the job: refresh_orchestrator_state
\* calls run_orchestrator_job, which awaits load_transcripts.
RefreshStarts(t) ==
  /\ last_read' = NoRead
  /\ ready # <<>> /\ Head(ready) = StepHandle(t)
  /\ tpc[t] = "new"
  /\ tpc' = [tpc EXCEPT ![t] = "load"]
  /\ job' = [job EXCEPT ![t] = JobStart(RefreshParams)]
  /\ ready' = Tail(ready)
  /\ unserved' = FALSE
  /\ UNCHANGED <<reqVars, prompt, listing, clamped, io, em, update_task, refresh_pending, tout, calls_left, cacheVars,
                 orchVars, parent, coal, state_w, ts_w, nwrites, last_write>>

\* Task t resumes after its await: the job runs to its next await or ends;
\* when it ended the task caches a returned result, finishes, and the loop
\* queues its done callback.
RefreshResumes(t) ==
  /\ last_read' = NoRead
  /\ ready # <<>> /\ Head(ready) = StepHandle(t)
  /\ tpc[t] \in {"load", "gen"}
  /\ \E j \in JobResumes(job[t]) :
       /\ job' = [job EXCEPT ![t] = j]
       /\ IF JobEnded(j)
          THEN /\ tpc' = [tpc EXCEPT ![t] = "done"]
               /\ tout' = [tout EXCEPT ![t] = JobOutcome(j)]
               /\ ready' = Append(Tail(ready), CbHandle(t))
               /\ IF Caches(j)
                  THEN CacheWrite(TaskResult(t))
                  ELSE UNCHANGED <<cacheVars, state_w, ts_w, nwrites, last_write>>
          ELSE /\ tpc' = [tpc EXCEPT ![t] = "gen"]
               /\ ready' = Tail(ready)
               /\ UNCHANGED <<tout, cacheVars, state_w, ts_w, nwrites, last_write>>
  /\ UNCHANGED <<reqVars, prompt, listing, clamped, io, em, update_task, refresh_pending, calls_left, orchVars, parent,
                 coal, unserved>>

\* First step of the handler of POST /orchestrate with some payload.
OrchestrateStarts(o) ==
  /\ last_read' = NoRead
  /\ ready # <<>> /\ Head(ready) = OrchHandle(o)
  /\ opc[o] = "new"
  /\ opc' = [opc EXCEPT ![o] = "load"]
  /\ \E payload \in OrchestratorRequests :
       job' = [job EXCEPT ![MaxTasks + o] = JobStart(payload)]
  /\ ready' = Tail(ready)
  /\ UNCHANGED <<reqVars, prompt, listing, clamped, io, em, update_task, refresh_pending, tpc, tout, calls_left, cacheVars,
                 oout, histVars>>

\* The handler resumes after its await; when the job ended it answers, after
\* caching a returned result.  oout is the HTTP status.
OrchestrateResumes(o) ==
  /\ last_read' = NoRead
  /\ ready # <<>> /\ Head(ready) = OrchHandle(o)
  /\ opc[o] \in {"load", "gen"}
  /\ \E j \in JobResumes(job[MaxTasks + o]) :
       /\ job' = [job EXCEPT ![MaxTasks + o] = j]
       /\ IF JobEnded(j)
          THEN /\ opc' = [opc EXCEPT ![o] = "done"]
               /\ oout' = [oout EXCEPT ![o] = OrchestrateStatus(JobOutcome(j))]
               /\ IF Caches(j)
                  THEN CacheWrite(OrchResult(o))
                  ELSE UNCHANGED <<cacheVars, state_w, ts_w, nwrites, last_write>>
          ELSE /\ opc' = [opc EXCEPT ![o] = "gen"]
               /\ UNCHANGED <<oout, cacheVars, state_w, ts_w, nwrites, last_write>>
  /\ ready' = Tail(ready)
  /\ UNCHANGED <<reqVars, prompt, listing, clamped, io, em, update_task, refresh_pending, tpc, tout, calls_left, parent,
                 coal, unserved>>


\* A transcript as stored: request id, persona and creation time matter.
\* Two creation times are enough to order, and to tie, stored transcripts.
CreationTimes == {1, 2}
StoredTranscript(rid, persona, ts) ==
  [NoTranscript EXCEPT !.request_id = rid, !.persona = persona, !.created_at = ts]

\* ------------------------------------------- ChatLogger and ChatStorage writes
Writers == 1..MaxWriters

\* _build_file_path(transcript): <base>/<slug>/<timestamp>_<request_id>.json
BuildFilePath(transcript) ==
  [slug |-> NormalisePersona(transcript.persona), timestamp |-> transcript.created_at,
   request_id |-> transcript.request_id]

NoPath == [slug |-> <<>>, timestamp |-> 0, request_id |-> 0]

\* lpc: position of a ChatLogger.log call (idle, locked, line, written, done);
\* lock: holder of ChatLogger._lock (0 free); log_file: what was written to
\* the JSONL file, in order; spc: position of a ChatStorage.save_transcript
\* call (idle, thread, writing, done); spath: the file it writes; files: the
\* transcript files, each with its content (whose, and whether complete).
NoWrites ==
  [lock |-> 0, lpc |-> [w \in Writers |-> "idle"], log_file |-> <<>>,
   spc |-> [w \in Writers |-> "idle"], spath |-> [w \in Writers |-> NoPath],
   files |-> {}]

\* `async with self._lock` that enters whether or not the lock is held.
LockFreeIgnored(lock) == TRUE

\* `async with self._lock`: the body is entered when the lock is free; a
\* caller that finds it held waits.
LockFree(lock) == lock = 0

\* ChatLogger._append up to the thread hand-off: the lock is taken and
\* _write_line is queued on the thread pool.
LogAcquire(w) ==
  /\ last_read' = NoRead
  /\ io.lpc[w] = "idle"
  /\ LockFree(io.lock)
  /\ io' = [io EXCEPT !.lock = w, !.lpc[w] = "locked"]
  /\ UNCHANGED <<reqVars, prompt, listing, job, clamped, em, schedVars, cacheVars, orchVars, histVars>>

\* _write_line in its thread: handle.write(line).
LogWriteLine(w) ==
  /\ last_read' = NoRead
  /\ io.lpc[w] = "locked"
  /\ io' = [io EXCEPT !.lpc[w] = "line",
                      !.log_file = Append(@, [writer |-> w, part |-> "line"])]
  /\ UNCHANGED <<reqVars, prompt, listing, job, clamped, em, schedVars, cacheVars, orchVars, histVars>>

\* _write_line in its thread: handle.write("\n") and the close.
LogWriteNewline(w) ==
  /\ last_read' = NoRead
  /\ io.lpc[w] = "line"
  /\ io' = [io EXCEPT !.lpc[w] = "written",
                      !.log_file = Append(@, [writer |-> w, part |-> "newline"])]
  /\ UNCHANGED <<reqVars, prompt, listing, job, clamped, em, schedVars, cacheVars, orchVars, histVars>>

\* The thread finished: _append leaves the with block.
LogRelease(w) ==
  /\ last_read' = NoRead
  /\ io.lpc[w] = "written"
  /\ io' = [io EXCEPT !.lpc[w] = "done", !.lock = IF @ = w THEN 0 ELSE @]
  /\ UNCHANGED <<reqVars, prompt, listing, job, clamped, em, schedVars, cacheVars, orchVars, histVars>>

\* Personas of the requests whose transcripts are saved.
SavePersonas == {Given(<<"p">>), Given(<<"p", "!">>)}

\* save_transcript(transcript) for the transcript of request w (its request
\* id is a fresh uuid4): the path is built and _write_transcript is queued on
\* the thread pool.
SaveTranscript(w) ==
  /\ last_read' = NoRead
  /\ io.spc[w] = "idle"
  /\ \E persona \in SavePersonas, ts \in CreationTimes :
       io' = [io EXCEPT !.spc[w] = "thread",
                        !.spath[w] = BuildFilePath(StoredTranscript(w, persona, ts))]
  /\ UNCHANGED <<reqVars, prompt, listing, job, clamped, em, schedVars, cacheVars, orchVars, histVars>>

\* _write_transcript in its thread: write_text opens the file, truncating it.
WriteTranscriptOpens(w) ==
  /\ last_read' = NoRead
  /\ io.spc[w] = "thread"
  /\ io' = [io EXCEPT !.spc[w] = "writing",
                      !.files = {f \in @ : f.path # io.spath[w]} \cup
                                {[path |-> io.spath[w], writer |-> w, complete |-> FALSE]}]
  /\ UNCHANGED <<reqVars, prompt, listing, job, clamped, em, schedVars, cacheVars, orchVars, histVars>>

\* _write_transcript in its thread: the data is written and the file closed.
WriteTranscriptCloses(w) ==
  /\ last_read' = NoRead
  /\ io.spc[w] = "writing"
  /\ io' = [io EXCEPT !.spc[w] = "done",
                      !.files = {f \in @ : f.path # io.spath[w]} \cup
                                {[path |-> io.spath[w], writer |-> w, complete |-> TRUE]}]
  /\ UNCHANGED <<reqVars, prompt, listing, job, clamped, em, schedVars, cacheVars, orchVars, histVars>>


\* -------------------------------------------------------------- EngineManager
Getters == 1..MaxGetters

\* What a get_engine call ended with: nothing yet, the engine it returned,
\* RuntimeError, or the exception of a failed construction.
NotCalled == [status |-> "none", engine |-> 0]
Returned(engine) == [status |-> "engine", engine |-> engine]
Raised(what) == [status |-> what, engine |-> 0]

\* EngineManager(): _engine None (0), _lock free; attempts counts the calls
\* of AsyncLLMEngine.from_engine_args, constructed those that returned.
NewEngineManager ==
  [engine |-> 0, lock |-> 0, attempts |-> 0, constructed |-> 0,
   got |-> [g \in Getters |-> NotCalled]]

\* The is_ready property.
is_ready(m) == m.engine # 0

\* get_engine without the two `self._engine is not None` tests.
get_engine_always_builds(m, available, builds) ==
  IF ~available THEN [m |-> m, result |-> Raised("runtime_error")]
  ELSE IF builds
  THEN [m |-> [m EXCEPT !.engine = m.attempts + 1, !.attempts = @ + 1,
                        !.constructed = @ + 1],
        result |-> Returned(m.attempts + 1)]
  ELSE [m |-> [m EXCEPT !.attempts = @ + 1], result |-> Raised("construct_error")]

\* get_engine() on manager m; `available` says the vllm names were imported,
\* `builds` whether from_engine_args returns.  The lock is free whenever a
\* call reaches it, because the with block holds no await: the call takes the
\* lock, tests again, constructs and releases in one step.  The engine is
\* named by the number of the construction that made it.
get_engine(m, available, builds) ==
  IF ~available THEN [m |-> m, result |-> Raised("runtime_error")]
  ELSE IF m.engine # 0 THEN [m |-> m, result |-> Returned(m.engine)]
  ELSE IF builds
  THEN [m |-> [m EXCEPT !.engine = m.attempts + 1, !.attempts = @ + 1,
                        !.constructed = @ + 1],
        result |-> Returned(m.attempts + 1)]
  ELSE [m |-> [m EXCEPT !.attempts = @ + 1], result |-> Raised("construct_error")]

\* A coroutine awaits engine_manager.get_engine().
GetEngineCall(g) ==
  /\ last_read' = NoRead
  /\ em.got[g] = NotCalled
  /\ em.lock = 0
  /\ \E builds \in BOOLEAN :
       LET r == get_engine(em, vllm_available, builds) IN
         em' = [r.m EXCEPT !.got[g] = r.result]
  /\ UNCHANGED <<reqVars, prompt, listing, job, clamped, io, schedVars, cacheVars, orchVars, histVars>>


\* ---------------------------------------------------------- format_chat_prompt
\* ChatMessage: a role validate_role accepts and any content.
Roles == {"system", "user", "assistant"}
PromptMessages == [role : Roles, content : Texts]
PromptConversations == UNION {[1..n -> PromptMessages] : n \in 0..MaxMessages}

\* str.capitalize() of a role.
Capitalize(role) ==
  IF role = "system" THEN "System" ELSE IF role = "user" THEN "User" ELSE "Assistant"

\* A segment of the prompt, "<label>: <content>"; the segments are joined
\* with blank lines.  The trailing marker is "Assistant:" with nothing after
\* the colon.
Segment(label, content) == [label |-> label, content |-> content, marker |-> FALSE]
AssistantMarker == [label |-> "Assistant", content |-> <<>>, marker |-> TRUE]
\* The fixed instruction segment ("System: Reply directly to the user. ...");
\* its text is none of the message contents.
ReplyDirectly == [label |-> "System", content |-> <<"Reply directly to the user.">>,
                  marker |-> FALSE]

\* format_chat_prompt(messages): ValueError for no messages, else the
\* segments of the prompt.
format_chat_prompt(messages) ==
  IF messages = <<>> THEN [raised |-> TRUE, segments |-> <<>>]
  ELSE [raised |-> FALSE,
        segments |-> [i \in 1..Len(messages) |->
                        Segment(Capitalize(messages[i].role), Strip(messages[i].content))]
                     \o <<ReplyDirectly, AssistantMarker>>]

NoPrompt == [called |-> FALSE, messages |-> <<>>,
             first |-> [raised |-> FALSE, segments |-> <<>>],
             second |-> [raised |-> FALSE, segments |-> <<>>]]

\* format_chat_prompt is called twice on one conversation.
FormatChatPrompt ==
  /\ last_read' = NoRead
  /\ ~prompt.called
  /\ \E messages \in PromptConversations :
       prompt' = [called |-> TRUE, messages |-> messages,
                  first |-> format_chat_prompt(messages),
                  second |-> format_chat_prompt(messages)]
  /\ UNCHANGED <<reqVars, listing, job, clamped, io, em, schedVars, cacheVars, orchVars, histVars>>


\* ------------------------------------------------------------ specification
InitProcess ==
  /\ update_task = 0
  /\ refresh_pending = FALSE
  /\ tpc = [t \in Tasks |-> "none"]
  /\ tout = [t \in Tasks |-> "-"]
  /\ ready = <<StartupHandle>>
  /\ orch_state = 0
  /\ orch_updated_at = 0
  /\ state_lock = 0
  /\ now = 1
  /\ opc = [o \in Orchs |-> "none"]
  /\ oout = [o \in Orchs |-> "-"]
  /\ parent = [t \in Tasks |-> 0]
  /\ coal = NoCoal
  /\ unserved = FALSE
  /\ state_w = 0
  /\ ts_w = 0
  /\ nwrites = 0
  /\ last_write = [result |-> 0, updated_at |-> 0]
  /\ last_read = NoRead
  /\ req = [r \in Reqs |-> NoRequest]
  /\ listing = NoListing
  /\ job = [c \in Callers |-> NoJob]
  /\ clamped = NoSummary
  /\ io = NoWrites
  /\ em = NewEngineManager
  /\ prompt = NoPrompt

\* A fresh process over an empty transcript directory.
InitGlobals == InitProcess /\ store = {}

\* The orchestration side does not depend on the vllm import.
InitCommon == InitGlobals /\ vllm_available = TRUE

\* The scheduler under startup, post-request calls and background runs.
InitSched == InitCommon /\ calls_left = MaxCalls

NextSched ==
  \/ RunStartup
  \/ RunCall
  \/ RequestPersisted
  \/ \E t \in Tasks : TaskStart(t)
  \/ \E t \in Tasks : TaskIOComplete(t)
  \/ \E t \in Tasks : TaskLoaded(t)
  \/ \E t \in Tasks : TaskJobFailed(t)
  \/ \E t \in Tasks : TaskJobDone(t)
  \/ \E t \in Tasks : RunCallback(t)

SpecSched == InitSched /\ [][NextSched]_vars

\* The loop runs the handle at the head of its ready queue.
LoopStep ==
  \/ RunStartup
  \/ RunCall
  \/ \E t \in Tasks : TaskStart(t) \/ TaskLoaded(t) \/ TaskJobFailed(t) \/ TaskJobDone(t)
                        \/ RunCallback(t)

\* The loop keeps running ready handles and every awaited load or generation
\* of a background run completes.
InitFair == InitCommon /\ calls_left = MaxFairCalls

FairSched ==
  /\ InitFair
  /\ [][NextSched]_vars
  /\ WF_vars(LoopStep)
  /\ \A t \in Tasks : WF_vars(TaskIOComplete(t))

\* The cache under scheduled runs, explicit orchestrate calls and reads.
InitCache == InitCommon /\ calls_left = MaxCacheCalls

NextCache ==
  \/ NextSched
  \/ ReadState
  \/ \E o \in Orchs : OrchestrateArrives(o)
  \/ \E o \in Orchs : OrchStart(o)
  \/ \E o \in Orchs : OrchIOComplete(o)
  \/ \E o \in Orchs : OrchLoaded(o)
  \/ \E o \in Orchs : OrchJobFailed(o)
  \/ \E o \in Orchs : OrchJobDone(o)

SpecCache == InitCache /\ [][NextCache]_vars

\* Request handling.  Each step of a request handler is woken by an outside
\* event (arrival, engine item, write thread, disconnect), so the steps of
\* different requests interleave freely.
InitReq == InitGlobals /\ vllm_available \in BOOLEAN /\ calls_left = 0

NextReq ==
  \E r \in Reqs :
    \/ Generate(r)
    \/ IterateGenerationStart(r)
    \/ EngineYields(r)
    \/ EngineEnds(r)
    \/ EngineRaises(r)
    \/ SaveTranscriptReturns(r)
    \/ ClientDisconnects(r)

SpecReq == InitReq /\ [][NextReq]_vars

\* Listing a store.  The store holds up to MaxFiles transcripts, one per
\* request id, with any persona and creation time.
Stores ==
  UNION {{ {StoredTranscript(i, f[i].persona, f[i].ts) : i \in 1..n} :
            f \in [1..n -> [persona : StorePersonas, ts : CreationTimes]] } :
         n \in 0..MaxFiles}

InitStore ==
  /\ InitProcess
  /\ vllm_available = TRUE
  /\ calls_left = 0
  /\ store \in Stores

NextStore == LoadTranscripts

SpecStore == InitStore /\ [][NextStore]_vars

\* Stores of two users' transcripts.
JobStores ==
  {{}, {StoredTranscript(1, Given(<<"p">>), 1)},
   {StoredTranscript(1, Given(<<"p">>), 1), StoredTranscript(2, NonePersona, 2)}}

\* The scheduler with every background run followed step by step through
\* run_orchestrator_job.
InitRefresh ==
  /\ InitProcess
  /\ vllm_available = TRUE
  /\ calls_left = MaxJobCalls
  /\ store \in JobStores

NextRefresh ==
  \/ RunStartup
  \/ RunCall
  \/ RequestPersisted
  \/ \E t \in Tasks : RefreshStarts(t)
  \/ \E t \in Tasks : TaskIOComplete(t)
  \/ \E t \in Tasks : RefreshResumes(t)
  \/ \E t \in Tasks : RunCallback(t)

SpecRefresh == InitRefresh /\ [][NextRefresh]_vars

\* The startup refresh beside explicit orchestrate calls, each one's
\* run_orchestrator_job followed step by step.
InitJob ==
  /\ InitProcess
  /\ vllm_available = TRUE
  /\ calls_left = 0
  /\ store \in JobStores

NextJob ==
  \/ RunStartup
  \/ \E t \in Tasks : RefreshStarts(t)
  \/ \E t \in Tasks : TaskIOComplete(t)
  \/ \E t \in Tasks : RefreshResumes(t)
  \/ \E t \in Tasks : RunCallback(t)
  \/ \E o \in Orchs : OrchestrateArrives(o)
  \/ \E o \in Orchs : OrchestrateStarts(o)
  \/ \E o \in Orchs : OrchIOComplete(o)
  \/ \E o \in Orchs : OrchestrateResumes(o)

SpecJob == InitJob /\ [][NextJob]_vars

\* The summary statement alone, over engine texts of several lines.
InitSummary ==
  /\ InitGlobals
  /\ vllm_available = TRUE
  /\ calls_left = 0

NextSummary == Summarise

SpecSummary == InitSummary /\ [][NextSummary]_vars

\* Concurrent persistence calls.
InitWrites ==
  /\ InitGlobals
  /\ vllm_available = TRUE
  /\ calls_left = 0

NextWrites ==
  \/ \E w \in Writers : LogAcquire(w)
  \/ \E w \in Writers : LogWriteLine(w)
  \/ \E w \in Writers : LogWriteNewline(w)
  \/ \E w \in Writers : LogRelease(w)
  \/ \E w \in Writers : SaveTranscript(w)
  \/ \E w \in Writers : WriteTranscriptOpens(w)
  \/ \E w \in Writers : WriteTranscriptCloses(w)

SpecWrites == InitWrites /\ [][NextWrites]_vars

\* Calls of get_engine, with and without the vllm imports.
InitEngine ==
  /\ InitGlobals
  /\ vllm_available \in BOOLEAN
  /\ calls_left = 0

NextEngine == \E g \in Getters : GetEngineCall(g)

SpecEngine == InitEngine /\ [][NextEngine]_vars

\* Prompt construction over short conversations.
InitPrompt ==
  /\ InitGlobals
  /\ vllm_available = TRUE
  /\ calls_left = 0

NextPrompt == FormatChatPrompt

SpecPrompt == InitPrompt /\ [][NextPrompt]_vars



\* ==================================================================== claims

\* C1 (single-flight): at most one background run launched by the scheduler
\* is in flight (created and not yet finished) in every reachable state.
C1_SingleFlight == Cardinality(RunsInFlight) <= 1

\* C2 (coalescing): once N >= 2 calls in a row have arrived while one run was
\* in flight, no run is launched before that run's completion is handled,
\* and exactly one is launched from then on, for as long as no further call
\* arrives.
C2_CoalescedOnce ==
  coal.n >= 2 =>
    /\ tpc[coal.t] # "handled" => coal.since = 0
    /\ tpc[coal.t] = "handled" => coal.since = 1


\* C3 (no lost refresh): every call of schedule_orchestrator_refresh() is
\* followed by the start of a background run, given that the loop keeps
\* running its handles and every run's awaited I/O completes.
C3_NoLostRefresh == unserved ~> ~unserved

\* A call coalesced into the pending flag has been served by a relaunched run
\* that started.
C3_Witness ==
  \E t \in Tasks : parent[t] # 0 /\ tpc[t] \notin {"none", "new"} /\ ~unserved

\* The step in which the loop runs _handle_completion of task t.
HandlerStep(t) == tpc[t] = "done" /\ tpc'[t] = "handled"
\* The runs launched by the step.
NewRuns == {u \in Tasks : tpc[u] = "none" /\ tpc'[u] # "none"}

\* C4 (failure is a normal completion): the completion handler of a run makes
\* the same transition whatever the run's outcome (ok, NoTranscripts, error):
\* pending clear -> handle cleared and nothing launched; pending set -> flag
\* cleared and exactly one run launched and recorded.  The handle never names
\* a run whose completion has been handled.
C4_FailureIsCompletion ==
  /\ [](update_task # 0 => tpc[update_task] # "handled")
  /\ [][\A t \in Tasks : HandlerStep(t) =>
          /\ refresh_pending' = FALSE
          /\ IF refresh_pending
             THEN Cardinality(NewRuns) = 1 /\ update_task' \in NewRuns
             ELSE NewRuns = {} /\ update_task' = 0]_vars

\* A failed run's handler has relaunched, and another failed run's handler
\* has left the scheduler idle.
C4_Witness ==
  /\ \E t, u \in Tasks : tout[t] \in {"notranscripts", "error"} /\ parent[u] = t
  /\ \E t \in Tasks : /\ tout[t] \in {"notranscripts", "error"} /\ tpc[t] = "handled"
                      /\ \A u \in Tasks : parent[u] # t
                      /\ update_task = 0 /\ ~refresh_pending

\* C5 (pending implies running): whenever the pending flag is set a background
\* run is in flight.
C5_PendingImpliesRunning == refresh_pending => RunsInFlight # {}

\* C6 (exclusive transitions): the handle of a run that is still in flight is
\* never overwritten by a handler or a call.
C6_HandleNotOverwritten ==
  [][update_task # 0 /\ InFlight(update_task) => update_task' = update_task]_vars


\* Some orchestrator run, scheduled or explicit, has completed successfully.
Succeeded ==
  \/ \E t \in Tasks : tout[t] = "ok"
  \/ \E o \in Orchs : oout[o] = "ok"
\* C7 (no torn pair): a cache read that returns a snapshot returns a result
\* and an updated_at that were stored by one and the same write.
C7_ReadPairFromOneWrite ==
  last_read.resp.code = 200 =>
    /\ last_read.sw = last_read.tw
    /\ last_read.sw \in 1..nwrites

\* A read returned the pair stored by the second write.
C7_Witness ==
  /\ last_read.resp.code = 200
  /\ last_read.sw = 2
  /\ last_read.resp.updated_at = 2

\* C8 (not-yet-available): the cache is empty exactly while no run has
\* completed successfully (so it never empties again and a failed run does
\* not clear it), and a read answers 404 exactly then.
C8_EmptyIffNoSuccess ==
  /\ (orch_state = 0 \/ orch_updated_at = 0) <=> ~Succeeded
  /\ last_read # NoRead => (last_read.resp.code = 404 <=> ~Succeeded)

\* After a run succeeded and another run failed, a read returned the
\* successful run's result.
C8_Witness ==
  /\ \E t \in Tasks : tout[t] \in {"notranscripts", "error"} /\ tpc[t] = "handled"
  /\ Succeeded
  /\ last_read.resp.code = 200
  /\ last_read.resp.result = orch_state

\* The answer a read owes: the pair of the latest completed write.
Snapshot ==
  IF nwrites = 0
  THEN [code |-> 404, result |-> 0, updated_at |-> 0]
  ELSE [code |-> 200, result |-> last_write.result, updated_at |-> last_write.updated_at]

\* C9 (stale read until swap): while a run is being computed the cache lock
\* is free, so a read is not made to wait, and a read made then returns the
\* pair of the latest completed write.
C9_StaleReadUntilSwap ==
  /\ RunComputing => state_lock = 0 /\ ENABLED ReadState
  /\ last_read # NoRead /\ last_read.busy => last_read.resp = Snapshot

\* A read made while a run was loading or generating returned the result of
\* an earlier run.
C9_Witness ==
  /\ last_read.busy
  /\ last_read.resp.code = 200
  /\ RunComputing

\* ---------------------------------------------------------------- C10
\* Terminal positions of a request that was accepted.
Terminal == {"done", "failed", "cancelled"}
TranscriptsOf(r) == {x \in store : x.request_id = r}

\* C10: every request with a non-empty conversation has, once its handling
\* has ended (success, generation failure or client cancellation), exactly
\* one persisted transcript; that transcript carries the request's own id,
\* which no other request's transcript carries, and its messages are the
\* input conversation.  Requests that never received an engine item and
\* requests whose storage write failed are left out of the statement.
C10_ExactlyOneTranscript ==
  \A r \in Reqs :
    (/\ req[r].pc \in Terminal
     /\ req[r].messages # <<>>
     /\ req[r].received
     /\ req[r].saved # "failed")
    => /\ Cardinality(TranscriptsOf(r)) = 1
       /\ \A x \in TranscriptsOf(r) : x.messages = req[r].messages
       /\ \A u \in Reqs \ {r} : TranscriptsOf(r) \cap TranscriptsOf(u) = {}

\* ---------------------------------------------------------------- C11
\* How often x occurs in a log.
Count(log, x) == Cardinality({i \in 1..Len(log) : log[i] = x})
Logged(r, x) == Count(req[r].log, x) > 0

\* C11: for one request id persist_chat_transcript is called at most once,
\* and only after the last item of engine.generate(): once it has been
\* called the handler is past the generation loop, and no later step
\* receives an item, changes the accumulated text or relays a token.
C11_PersistOnceAfterLast ==
  /\ [](\A r \in Reqs :
          /\ Count(req[r].log, "persist") <= 1
          /\ Logged(r, "persist") => req[r].pc \in {"persist", "done", "cancelled"})
  /\ [][\A r \in Reqs :
          Logged(r, "persist") =>
            /\ req'[r].text = req[r].text
            /\ req'[r].seen = req[r].seen
            /\ req'[r].monotone = req[r].monotone
            /\ \A i \in 1..Len(req'[r].events) :
                 req'[r].events[i].type = "token" =>
                   i <= Len(req[r].events) /\ req[r].events[i] = req'[r].events[i]]_vars

\* A streamed request relayed a token, persisted and ended with done.
C11_Witness ==
  \E r \in Reqs :
    /\ req[r].pc = "done"
    /\ req[r].stream
    /\ Len(req[r].events) >= 2
    /\ Count(req[r].log, "persist") = 1

\* ---------------------------------------------------------------- C12
\* C12: a request with an empty conversation is rejected (HTTP 400) before
\* any work: engine.generate() is not called, persist_chat_transcript is not
\* called, no transcript is written, nothing is sent on a stream and
\* schedule_orchestrator_refresh() is not called.
C12_EmptyRejected ==
  \A r \in Reqs :
    req[r].pc # "none" /\ req[r].messages = <<>> =>
      /\ req[r].pc = "rejected"
      /\ req[r].log = <<>>
      /\ req[r].events = <<>>
      /\ TranscriptsOf(r) = {}
      /\ update_task = 0 /\ ~refresh_pending

\* An empty conversation arrived while the sampling parameters were usable.
C12_Witness ==
  \E r \in Reqs :
    req[r].pc = "rejected" /\ req[r].messages = <<>> /\ vllm_available

\* ---------------------------------------------------------------- C13
\* The token events of a stream, in order.
Tokens(events) == SelectSeq(events, LAMBDA e : e.type = "token")
RECURSIVE ConcatDeltas(_)
ConcatDeltas(events) ==
  IF events = <<>> THEN <<>> ELSE Head(events).delta \o ConcatDeltas(Tail(events))
EndsWithDone(r) ==
  /\ req[r].stream
  /\ req[r].events # <<>>
  /\ req[r].events[Len(req[r].events)].type = "done"

\* C13: for every streamed response that ends with a done event, whatever
\* cumulative texts the engine yielded, the deltas of the relayed token
\* events concatenated in order equal the content of the done event.
C13_DeltasConcatToContent ==
  \A r \in Reqs :
    EndsWithDone(r) =>
      ConcatDeltas(Tokens(req[r].events)) = req[r].events[Len(req[r].events)].content

\* ---------------------------------------------------------------- C14
\* The token events a prefix-monotone sequence of cumulative texts calls
\* for: one per strictly longer text, carrying the new suffix.
ExpectedTokens(seen, rid) ==
  [i \in 1..Len(seen) |->
     TokenEvent(Drop(seen[i], IF i = 1 THEN 0 ELSE Len(seen[i - 1])), seen[i], rid)]

\* C14: while the engine's cumulative texts t1..tn are prefix-monotone, the
\* stream has relayed, in order, exactly one token event per strictly longer
\* text with only the new suffix as delta; when the engine ends with reason
\* r the stream ends with a single done event with content tn and
\* finish_reason r.
C14_MonotoneStreamRelayed ==
  \A r \in Reqs :
    req[r].stream /\ req[r].monotone =>
      /\ Tokens(req[r].events) = ExpectedTokens(req[r].seen, r)
      /\ req[r].pc \in {"gen", "persist"} => req[r].events = ExpectedTokens(req[r].seen, r)
      /\ req[r].pc = "done" =>
           req[r].events = Append(ExpectedTokens(req[r].seen, r),
                                  DoneEvent(LastSeen(req[r]), req[r].reason, r))

\* Two strictly longer texts were relayed and the stream ended with stop.
C14_Witness ==
  \E r \in Reqs :
    /\ req[r].stream /\ req[r].monotone /\ req[r].pc = "done"
    /\ Len(req[r].seen) = 2
    /\ req[r].reason = "stop"

\* ---------------------------------------------------------------- C15
\* C15: once the engine has yielded a cumulative text that is shorter than,
\* or not an extension of, the text accumulated before it, the streamed
\* request is ended with an error: it is not left generating or persisting,
\* it never ends with a done event, and no token beyond those of the
\* well-formed prefix of the sequence is relayed.
C15_NonPrefixIsError ==
  \A r \in Reqs :
    req[r].stream /\ ~req[r].monotone =>
      /\ req[r].pc \in {"failed", "cancelled"}
      /\ ~EndsWithDone(r)
      /\ Tokens(req[r].events) = ExpectedTokens(req[r].seen, r)

\* ---------------------------------------------------------------- C16
\* C16: when the client of a streamed request disconnects while the response
\* is being generated, after at least one fragment has been relayed, exactly
\* one transcript is persisted for the request, with terminal reason
\* cancelled and the text accumulated over the relayed fragments.  (The
\* abort sent to the engine is not part of this statement.)
C16_CancelledPersisted ==
  \A r \in Reqs :
    (/\ req[r].pc = "cancelled"
     /\ ~Logged(r, "persist")
     /\ Tokens(req[r].events) # <<>>)
    => /\ Cardinality(TranscriptsOf(r)) = 1
       /\ \A x \in TranscriptsOf(r) :
            x.finish_reason = "cancelled" /\ x.response_text = req[r].text

\* ---------------------------------------------------------------- C17
\* Position of the first x in a log (0 when absent).
IndexOf(log, x) ==
  IF Count(log, x) = 0 THEN 0
  ELSE CHOOSE i \in 1..Len(log) : log[i] = x /\ \A j \in 1..(i - 1) : log[j] # x

\* C17: when engine.generate() raises after some text has been received,
\* streamed or buffered, persist_chat_transcript has been called exactly once
\* before the failure is reported, and the store holds exactly one
\* transcript of the request, with terminal reason error and the text
\* accumulated so far.
C17_PartialPersistedOnError ==
  \A r \in Reqs :
    (/\ req[r].pc = "failed"
     /\ Logged(r, "engine")
     /\ req[r].text # <<>>)
    => /\ Count(req[r].log, "persist") = 1
       /\ IndexOf(req[r].log, "persist") < IndexOf(req[r].log, "raise")
       /\ Cardinality(TranscriptsOf(r)) = 1
       /\ \A x \in TranscriptsOf(r) :
            /\ x.finish_reason = "error"
            /\ x.response_text \in {req[r].text, Strip(req[r].text)}

\* ---------------------------------------------------------------- C18
\* The generation service is unavailable to an accepted conversation: the
\* vllm import failed, or the request failed before any engine item arrived
\* (get_engine() raised, or engine.generate() raised at once).
Unavailable(r) ==
  /\ req[r].pc # "none"
  /\ req[r].messages # <<>>
  /\ \/ ~vllm_available
     \/ req[r].pc = "failed" /\ ~req[r].received

\* C18: a request that finds the generation service unavailable ends in a
\* service error (the exception leaves the handler; it is not answered as a
\* client error), no transcript is written for it and it does not call
\* schedule_orchestrator_refresh().
C18_UnavailableIsServiceError ==
  \A r \in Reqs :
    Unavailable(r) =>
      /\ req[r].pc = "failed"
      /\ ~Logged(r, "persist")
      /\ TranscriptsOf(r) = {}
      /\ ~Logged(r, "schedule")

\* ---------------------------------------------------------------- C19
\* What the caller of a request whose generation ended gets, as a function
\* of the generation output alone.
ExpectedEvents(r) ==
  Append(Tokens(req[r].events), DoneEvent(req[r].text, req[r].reason, r))
ExpectedResponse(r) ==
  [output |-> Strip(req[r].text), finish_reason |-> req[r].reason, request_id |-> r]

\* C19: a failed transcript write does not raise out of the request path
\* (the request is never turned into a failure by it) and does not change
\* what the caller receives: whether the write succeeded or failed, a
\* request that completed has sent the token events followed by the done
\* event of its generation (streamed) or returned the body built from its
\* generation (buffered).
C19_WriteFailureInvisible ==
  \A r \in Reqs :
    /\ req[r].saved = "failed" => req[r].pc \in {"done", "cancelled"}
    /\ Logged(r, "save_failed") => ~Logged(r, "raise")
    /\ req[r].pc = "done" =>
         IF req[r].stream
         THEN req[r].events = ExpectedEvents(r) /\ req[r].response = NoResponse
         ELSE req[r].response = ExpectedResponse(r) /\ req[r].events = <<>>

\* A request with generated text completed although its write failed.
C19_Witness ==
  \E r \in Reqs :
    req[r].pc = "done" /\ req[r].saved = "failed" /\ req[r].text # <<>>

\* ---------------------------------------------------------------- C20
\* Position in the log at which the write of the transcript ended.
SaveEnded(log) == IF Count(log, "saved") > 0 THEN IndexOf(log, "saved")
                  ELSE IndexOf(log, "save_failed")

C21_ScheduleOnlyForNonEmpty ==
  \A r \in Reqs :
    Logged(r, "schedule") /\ req[r].saved = "ok" =>
      req[r].transcript.response_text # <<>>

\* ---------------------------------------------------------------- C24
\* C24: in buffered mode, whatever items the engine yielded, the persisted
\* transcript's response text equals the engine's final cumulative text and
\* the output returned to the caller, and the persisted finish reason equals
\* the returned finish_reason.
C24_BufferedTextIsFullOutput ==
  \A r \in Reqs :
    ~req[r].stream /\ req[r].pc = "done" /\ req[r].saved = "ok" =>
      \A x \in TranscriptsOf(r) :
        /\ x.response_text = req[r].last_text
        /\ x.response_text = req[r].response.output
        /\ x.finish_reason = req[r].response.finish_reason

\* ---------------------------------------------------------------- C25
\* A persona that is absent or blank (empty or whitespace only).
Blank(persona) == ~persona.given \/ Strip(persona.text) = <<>>

\* C25: the transcript written for a request whose persona is absent or
\* blank is listed by load_transcripts under the key "general".  (That the
\* stored value itself is "general" is left out of the statement.)
C25_BlankPersonaIsGeneral ==
  \A r \in Reqs :
    Blank(req[r].persona) =>
      \A x \in TranscriptsOf(r) : PersonaKey(x.persona) = General

\* ---------------------------------------------------------------- C26
\* The stored transcripts of one listing key, and the keys a call lists.
StoredUnder(key) == {x \in store : PersonaKey(x.persona) = key}
ListedKeys(personas) ==
  {PersonaKey(x.persona) : x \in
     {y \in store : personas = <<>>
                    \/ Lower(Strip(PersonaKey(y.persona))) \in PersonaFilter(personas)}}
Items(group) == {group.items[i] : i \in 1..Len(group.items)}

\* C26: load_transcripts with a per-persona cap c returns one group for each
\* persona that has stored transcripts (and passes the filter) and no other;
\* a group holds min(c, n) different transcripts out of the n stored for its
\* persona, none of them older than a stored one that was left out, in
\* ascending order of creation time.
C26_CapKeepsLatestAscending ==
  listing.called /\ listing.limit # 0 =>
    LET res == listing.result IN
    /\ {res[i].persona : i \in 1..Len(res)} = ListedKeys(listing.personas)
    /\ \A i, j \in 1..Len(res) : res[i].persona = res[j].persona => i = j
    /\ \A i \in 1..Len(res) :
         LET all == StoredUnder(res[i].persona)
             items == res[i].items IN
         /\ Len(items) = Min(listing.limit, Cardinality(all))
         /\ Cardinality(Items(res[i])) = Len(items)
         /\ Items(res[i]) \subseteq all
         /\ \A a, b \in 1..Len(items) : a < b => items[a].created_at <= items[b].created_at
         /\ \A x \in all \ Items(res[i]) : \A y \in Items(res[i]) :
              x.created_at <= y.created_at

\* A persona with more stored transcripts than the cap was listed, and a
\* strictly older transcript was left out.
C26_Witness ==
  /\ listing.called /\ listing.limit = MaxLimit
  /\ \E i \in 1..Len(listing.result) :
       /\ Cardinality(StoredUnder(listing.result[i].persona)) > MaxLimit
       /\ \E x \in StoredUnder(listing.result[i].persona) \ Items(listing.result[i]) :
            \E y \in Items(listing.result[i]) : x.created_at < y.created_at

\* ---------------------------------------------------------------- C29
\* The runs a step launches.
Launched == {t \in Tasks : tpc[t] = "none" /\ tpc'[t] = "new"}

\* C29: right after a step that launches a background run the pending flag
\* is false.
C29_LaunchClearsPending == [][Launched # {} => ~refresh_pending']_vars

\* ---------------------------------------------------------------- C22
\* C22: every background run, however it was launched, runs
\* run_orchestrator_job with no persona filter, the default transcript cap,
\* the default summary budget and include_requirements false, asks only for
\* summaries with that budget, and the cached result of a background run has
\* an empty requirements document.
C22_ScheduledRunsUseDefaults ==
  /\ \A t \in Tasks : job[t].pc # "none" =>
       /\ job[t].params.personas = <<>>
       /\ job[t].params.max_transcripts_per_persona = ORCHESTRATOR_DEFAULT_MAX_TRANSCRIPTS
       /\ job[t].params.summary_max_tokens = ORCHESTRATOR_DEFAULT_SUMMARY_TOKENS
       /\ ~job[t].params.include_requirements
       /\ \A i \in 1..Len(job[t].calls) :
            /\ job[t].calls[i].kind = "summary"
            /\ job[t].calls[i].max_tokens = ORCHESTRATOR_DEFAULT_SUMMARY_TOKENS
  /\ \A t \in Tasks : orch_state = TaskResult(t) =>
       job[t].pc = "returned" /\ job[t].requirements_document = <<>>

\* A follow-up run launched by a completion handler stored its result.
C22_Witness ==
  \E t \in Tasks :
    /\ parent[t] # 0
    /\ orch_state = TaskResult(t)
    /\ job[t].pc = "returned"
    /\ job[t].calls # <<>>

\* ---------------------------------------------------------------- C23
\* No stored transcript passes the job's persona filter.
NothingToLoad(j) == ListedKeys(j.params.personas) = {}

\* C23: a job that finds no transcript for its personas ends by raising,
\* with NoTranscripts unless the listing itself failed, and has made no
\* generation call.  A background run that ended with NoTranscripts did not
\* write the cache, and once its completion is handled the scheduler holds
\* no task and no run is in flight.  An explicit call answers 404 exactly
\* when its job ended with NoTranscripts, and then did not write the cache.
C23_NoTranscriptsFailsQuietly ==
  /\ \A c \in Callers : job[c].pc \notin {"none", "load"} /\ NothingToLoad(job[c]) =>
       /\ job[c].pc = "raised"
       /\ job[c].raised \in {"notranscripts", "error"}
       /\ job[c].calls = <<>>
  /\ \A c \in Callers : job[c].raised = "notranscripts" => job[c].calls = <<>>
  /\ \A t \in Tasks :
       /\ tpc[t] \in {"done", "handled"} /\ job[t].raised = "notranscripts" =>
            tout[t] = "notranscripts" /\ orch_state # TaskResult(t)
       /\ tpc[t] = "handled" /\ tout[t] = "notranscripts" =>
            update_task = 0 /\ RunsInFlight = {}
  /\ \A o \in Orchs : opc[o] = "done" =>
       /\ (oout[o] = "404") = (job[MaxTasks + o].raised = "notranscripts")
       /\ oout[o] = "404" => orch_state # OrchResult(o)

\* Over an empty store the startup refresh ended with NoTranscripts and was
\* handled, an explicit call was answered 404, and the cache is still empty.
C23_Witness ==
  /\ store = {}
  /\ \E t \in Tasks : tpc[t] = "handled" /\ tout[t] = "notranscripts"
  /\ \E o \in Orchs : opc[o] = "done" /\ oout[o] = "404"
  /\ orch_state = 0 /\ orch_updated_at = 0

\* ---------------------------------------------------------------- C27
\* C27: a job that returned has at least one persona whose summary text is
\* not empty.
C27_ReturnedHasNonEmptySummary ==
  \A c \in Callers : job[c].pc = "returned" =>
    \E i \in 1..Len(job[c].summaries) : job[c].summaries[i].text # <<>>

\* ---------------------------------------------------------------- C28
\* The callers whose job returns in this step.
Returning == {c \in Callers : job[c].pc # "returned" /\ job'[c].pc = "returned"}

\* C28: a step of run_orchestrator_job leaves the task handle, the pending
\* flag and the transcript store as they are, and the cached pair is written
\* only in the step in which a caller's job returns, with that caller's
\* result; no other step of a job writes it.
C28_JobLeavesSharedStateAlone ==
  [][/\ job' # job =>
          /\ update_task' = update_task
          /\ refresh_pending' = refresh_pending
          /\ store' = store
          /\ Returning = {} =>
               /\ orch_state' = orch_state
               /\ orch_updated_at' = orch_updated_at
     /\ nwrites' # nwrites =>
          \E c \in Returning :
            orch_state' = (IF c \in Tasks THEN TaskResult(c) ELSE OrchResult(c - MaxTasks))
    ]_vars

\* The cache holds the result of a job that returned while another caller's
\* job has raised.
C28_Witness ==
  \E c, d \in Callers :
    /\ job[c].pc = "returned" /\ orch_state = c
    /\ job[d].pc = "raised"

\* ---------------------------------------------------------------- C30
SummaryCallsFor(j, key) ==
  {i \in 1..Len(j.calls) : j.calls[i].kind = "summary" /\ j.calls[i].persona = key}

\* C30: a job that returned made one summary call for each persona with a
\* stored transcript that passes its filter, then one requirements call when
\* include_requirements is set and none otherwise, and no other call; without
\* include_requirements its requirements document is empty.
C30_OneCallPerPersonaThenRequirements ==
  \A c \in Callers : job[c].pc = "returned" =>
    LET j == job[c]
        keys == ListedKeys(j.params.personas)
        n == Cardinality(keys)
    IN /\ \A key \in keys : Cardinality(SummaryCallsFor(j, key)) = 1
       /\ \A i \in 1..Len(j.calls) : i <= n <=> j.calls[i].kind = "summary"
       /\ Len(j.calls) = n + (IF j.params.include_requirements THEN 1 ELSE 0)
       /\ j.params.include_requirements => j.calls[n + 1].kind = "requirements"
       /\ ~j.params.include_requirements => j.requirements_document = <<>>

\* A job over two personas returned after two summary calls and the
\* requirements call.
C30_Witness ==
  \E c \in Callers :
    /\ job[c].pc = "returned"
    /\ job[c].params.include_requirements
    /\ Len(job[c].calls) = 3
    /\ job[c].calls[3].kind = "requirements"
    /\ job[c].calls[1].persona # job[c].calls[2].persona

\* ---------------------------------------------------------------- C31
\* The lines of a text ("" has none).
LinesOf(text) == IF text = <<>> THEN <<>> ELSE SplitLines(text, <<>>)
NonEmptyLines(text) == {i \in 1..Len(LinesOf(text)) : LinesOf(text)[i] # <<>>}

\* C31: the summary stored for an engine text has at most 5 lines, so at
\* most 5 non-empty ones, and they are the first lines of the text (blanks
\* around the text and at line ends aside), in the same order.
C31_SummaryIsFirstFiveLines ==
  clamped.called =>
    LET out == LinesOf(clamped.summary)
        src == LinesOf(StripWs(clamped.latest_text))
    IN /\ Len(out) <= 5
       /\ Cardinality(NonEmptyLines(clamped.summary)) <= 5
       /\ Len(out) <= Len(src)
       /\ \A i \in 1..Len(out) : out[i] = RStripWs(src[i])

\* A text of more than five non-empty lines was cut to five lines.
C31_Witness ==
  /\ clamped.called
  /\ Cardinality(NonEmptyLines(StripWs(clamped.latest_text))) > 5
  /\ Cardinality(NonEmptyLines(clamped.summary)) = 5

\* ---------------------------------------------------------------- C32
\* The transcripts a listing returned.
Listed == UNION {Items(listing.result[i]) : i \in 1..Len(listing.result)}

\* C32: with a persona filter, a stored transcript is listed exactly when
\* the slug of its persona equals some filter entry without regard to case,
\* and each listed transcript sits in the group keyed by its persisted
\* persona value.
C32_FilterMatchesNormalisedPersona ==
  listing.called /\ listing.personas # <<>> =>
    /\ \A x \in store :
         x \in Listed <=>
           \E i \in 1..Len(listing.personas) :
             Lower(NormalisePersona(x.persona)) = Lower(Strip(listing.personas[i]))
    /\ \A i \in 1..Len(listing.result) : \A x \in Items(listing.result[i]) :
         x.persona.given => listing.result[i].persona = x.persona.text

\* ---------------------------------------------------------------- C33
\* Writers with a write in progress on the JSONL log, and on a transcript file.
LogWriting == {w \in Writers : io.lpc[w] \in {"locked", "line", "written"}}
FileWriting(path) == {w \in Writers : io.spc[w] = "writing" /\ io.spath[w] = path}

\* C33: at most one write to the JSONL log is in progress and every line
\* written to it is followed by its own line end before anything else; at
\* most one write to any transcript file is in progress, and the file of a
\* finished save holds that save's complete record.
C33_WritesSerialisedPerFile ==
  /\ Cardinality(LogWriting) <= 1
  /\ \A i \in 1..Len(io.log_file) : io.log_file[i].part = "line" /\ i < Len(io.log_file) =>
       io.log_file[i + 1] = [writer |-> io.log_file[i].writer, part |-> "newline"]
  /\ \A w \in Writers : Cardinality(FileWriting(io.spath[w])) <= 1
  /\ \A w \in Writers : io.spc[w] = "done" =>
       [path |-> io.spath[w], writer |-> w, complete |-> TRUE] \in io.files

\* One log call is writing while another waits for the lock, and two saves
\* of the same persona and second are being written at the same time.
C33_Witness ==
  /\ \E w, v \in Writers : w # v /\ io.lpc[w] = "line" /\ io.lpc[v] = "idle"
  /\ \E w, v \in Writers :
       /\ w # v /\ io.spc[w] = "writing" /\ io.spc[v] = "writing"
       /\ io.spath[w].slug = io.spath[v].slug
       /\ io.spath[w].timestamp = io.spath[v].timestamp

\* ---------------------------------------------------------------- C34
\* C34: the engine is constructed at most once, every call that returned an
\* engine returned the one the manager holds, and without the vllm imports
\* every call raised RuntimeError and is_ready is false.
C34_EngineBuiltOnce ==
  /\ em.constructed <= 1
  /\ \A g \in Getters : em.got[g].status = "engine" =>
       is_ready(em) /\ em.got[g].engine = em.engine
  /\ ~vllm_available =>
       /\ ~is_ready(em)
       /\ em.attempts = 0
       /\ \A g \in Getters : em.got[g] # NotCalled => em.got[g].status = "runtime_error"

\* After a construction that failed, one call built the engine and another
\* call got the same engine.
C34_Witness ==
  /\ em.attempts = 2 /\ em.constructed = 1
  /\ \E g, h \in Getters : g # h /\ em.got[g].status = "engine" /\ em.got[h].status = "engine"

\* ---------------------------------------------------------------- C35
\* One segment for each message whose content is not empty, in order.
RECURSIVE MessageSegments(_)
MessageSegments(messages) ==
  IF messages = <<>> THEN <<>>
  ELSE (IF Strip(Head(messages).content) = <<>> THEN <<>>
        ELSE <<Segment(Capitalize(Head(messages).role), Strip(Head(messages).content))>>)
       \o MessageSegments(Tail(messages))

\* C35: two calls on one conversation give the same prompt, and the prompt
\* of a conversation is one "<Role>: <content>" segment for each message with
\* non-empty content, in order, followed by "Assistant:" and nothing else.
C35_PromptIsMessagesThenMarker ==
  prompt.called /\ prompt.messages # <<>> =>
    /\ prompt.first = prompt.second
    /\ prompt.first.segments = MessageSegments(prompt.messages) \o <<AssistantMarker>>

\* ---------------------------------------------------------------- C36
\* No run in flight, pending flag clear, task handle cleared.
Idle == update_task = 0 /\ ~refresh_pending /\ RunsInFlight = {}

\* C36 (quiescence): given that the loop keeps running its handles and every
\* run's awaited I/O completes, once calls stop arriving the scheduler
\* becomes idle and stays idle.  The pending flag is raised only by a step
\* that runs a call of schedule_orchestrator_refresh(), and a completion
\* handler launches at most one run, only when the flag is set, clearing it;
\* so after the last call the handlers relaunch at most once.
C36_Quiescence ==
  /\ <>[]Idle
  /\ [][~refresh_pending /\ refresh_pending' =>
          ready # <<>> /\ Head(ready) \in {StartupHandle, CallHandle}]_vars
  /\ [][\A t \in Tasks : HandlerStep(t) /\ NewRuns # {} =>
          refresh_pending /\ ~refresh_pending' /\ Cardinality(NewRuns) = 1]_vars

\* All calls were delivered, one of them was served by a run a completion
\* handler launched, and the scheduler is idle with every run handled.
C36_Witness ==
  /\ calls_left = 0 /\ ready = <<>>
  /\ Idle
  /\ \E t \in Tasks : parent[t] # 0 /\ tpc[t] = "handled"
  /\ \A t \in Tasks : tpc[t] \in {"none", "handled"}

OrchestrateStep == \E o \in Orchs : opc[o] # "none" /\ opc'[o] # opc[o]
\* The step is a cache read.
ReadStep == last_read' # NoRead

\* C38: a step of an explicit orchestrate call changes neither the task
\* handle, nor the pending flag, nor any background run, and the handler's
\* next step can be taken whatever the scheduled runs are doing; a cache read
\* changes none of these and leaves the cached pair as it is.
C38_OrchestrateAndReadFrame ==
  /\ [][OrchestrateStep =>
          update_task' = update_task /\ refresh_pending' = refresh_pending /\ tpc' = tpc]_vars
  /\ [][ReadStep =>
          /\ update_task' = update_task /\ refresh_pending' = refresh_pending /\ tpc' = tpc
          /\ orch_state' = orch_state /\ orch_updated_at' = orch_updated_at]_vars
  /\ [](\A o \in Orchs : ready # <<>> /\ Head(ready) = OrchHandle(o) =>
          /\ opc[o] = "new" => ENABLED OrchStart(o)
          /\ opc[o] = "load" => ENABLED OrchLoaded(o)
          /\ opc[o] = "gen" => ENABLED OrchJobDone(o))

\* A read has just returned the result an explicit call stored, while a
\* scheduled run is in flight with a follow-up pending.
C38_Witness ==
  /\ last_read.resp.code = 200
  /\ \E o \in Orchs : oout[o] = "ok" /\ last_read.resp.result = OrchResult(o)
  /\ refresh_pending /\ update_task # 0 /\ RunsInFlight # {}

\* ---------------------------------------------------------------- C39
\* A streamed response that was sent to its end: the generator returned
\* after the done event or was left by an exception.
ConsumedToEnd(r) == req[r].stream /\ req[r].pc \in {"done", "failed"}

\* C39: every streamed response consumed to its end holds at least one
\* event, its last event is a done or an error event, every event before
\* the last is a token event, and every token event carries a non-empty
\* delta; streams whose engine fails before the first item included.
C39_OneTerminalEventLast ==
  \A r \in Reqs :
    ConsumedToEnd(r) =>
      LET ev == req[r].events IN
      /\ ev # <<>>
      /\ ev[Len(ev)].type \in {"done", "error"}
      /\ \A i \in 1..(Len(ev) - 1) : ev[i].type = "token"
      /\ \A i \in 1..Len(ev) : ev[i].type = "token" => ev[i].delta # <<>>

\* ---------------------------------------------------------------- C40
\* What the buffered path persists and returns for the engine items request
\* r received: latest_text.strip() and the finish_reason of the last item
\* that had outputs.
BufferedText(r) == Strip(req[r].last_text)
BufferedReason(r) == req[r].reason

\* C40: the transcript a completed streamed request persisted carries the
\* response text and the finish reason the buffered path persists for the
\* same engine items, and the content of the done event equals the output
\* field of the buffered response.
C40_StreamedPersistsLikeBuffered ==
  \A r \in Reqs :
    req[r].stream /\ req[r].pc = "done" /\ req[r].saved = "ok" =>
      /\ \A x \in TranscriptsOf(r) :
           /\ x.response_text = BufferedText(r)
           /\ x.finish_reason = BufferedReason(r)
      /\ req[r].events[Len(req[r].events)].content = BufferedText(r)

====
